---- MODULE Spec2Model ----
(***************************************************************************)
(* Behavioural model of the flowalerts connection analyzer                 *)
(* (modules/flowalerts/conn.py): the connection-without-DNS check with its *)
(* deferred re-check on a timer thread, the reconnection counter kept in   *)
(* the profile/time-window store, and the P2P heuristic.                   *)
(***************************************************************************)
EXTENDS Integers, Sequences, FiniteSets, TLC

(***************************************************************************)
(* Bounds of the model                                                     *)
(***************************************************************************)
\* number of new_flow messages the main path consumes in one run
MaxFlows == 2
\* minutes of wall-clock time the run lasts
MaxMinutes == 30
\* number of flows handed to check_multiple_reconnection_attempts in one run
MaxReconnFlows == 6
\* number of calls of is_p2p in one run
MaxP2PCalls == 7
\* new_flow messages whose flow the upload checks see
MaxUploadFlows == 2
\* tw_closed messages consumed
MaxTwClosed == 2
\* calls of check_device_changing_ips
MaxDeviceFlows == 3
\* calls of detect_connection_to_multiple_ports
MaxPortsCalls == 2
\* new_flow messages handed to Conn.analyze
MaxAnalyzeEvents == 3
\* flows handed to check_different_localnet_usage
MaxLocalnetFlows == 2

(***************************************************************************)
(* Program constants                                                       *)
(***************************************************************************)
\* self.conn_without_dns_interface_wait_time (minutes)
conn_without_dns_interface_wait_time == 30
\* hours searched back for a DNS resolution: is_ip_resolved(daddr, 24)
ResolutionHours == 24
\* TimerThread(15, ...): seconds the deferred re-check waits
TimerDelay == 15
\* if reconnections < 5: the number of attempts that raises the evidence
ReconnectionThreshold == 5
\* int(dport) > 30000
P2PPortFloor == 30000
\* self.p2p_daddrs[daddr] >= 6
P2PDaddrHits == 6
\* len(self.p2p_daddrs) >= 5
P2PDistinctDaddrs == 5
\* self.flow_upload_threshold, in MB
flow_upload_threshold == 100
\* self.data_exfiltration_threshold, in MB: conf.data_exfiltration_threshold(),
\* at the default of the configuration
data_exfiltration_threshold == 500
\* utils.convert_to_mb divides a number of bytes by 10**6
BytesPerMb == 1000000
\* self.long_connection_threshold, in seconds: conf.long_connection_threshold(),
\* at the default of the configuration
long_connection_threshold == 1500

(***************************************************************************)
(* Inputs                                                                  *)
(***************************************************************************)
UIDs == {"u1", "u2"}
PlainDaddr == "93.184.216.34"
IgnoredDaddr == "224.0.0.251"
ClientDaddr == "10.0.0.7"
DoHDaddr == "1.1.1.1"
DnsServerDaddr == "8.8.8.8"
Daddrs == {PlainDaddr, IgnoredDaddr, ClientDaddr, DoHDaddr, DnsServerDaddr}
FlowTypes == {"conn", "dns"}
AppProtos == {"http", "dns", "icmp"}
Twids == {"timewindow1"}
OwnProfile == <<"profile", "192.168.1.2">>
OtherProfile == <<"profile", "192.168.1.9">>
Profiles == {OwnProfile, OtherProfile}
Timestamps == {"1700000000.0"}
InputTypes == {"pcap", "zeek_log_file", "interface"}

\* the clock is looked at when Slips starts and when the warm-up period ends
TickMinutes == conn_without_dns_interface_wait_time

\* self.our_ips = utils.get_own_ips()
our_ips == {"192.168.1.2"}
\* self.client_ips = conf.client_ips()
client_ips == {ClientDaddr}

\* a uid names one connection, so it fixes the source address of its flows
ProfileOf(uid) == IF uid = "u1" THEN OwnProfile ELSE OtherProfile

\* the arguments of one call of check_connection_without_dns_resolution
Calls ==
  {c \in [flow_type : FlowTypes, appproto : AppProtos, daddr : Daddrs,
          twid : Twids, profileid : Profiles, timestamp : Timestamps,
          uid : UIDs] : c.profileid = ProfileOf(c.uid)}

\* inputs of check_multiple_reconnection_attempts
ReconnOrigStates == {"REJ", "S0"}
ReconnSaddrs == {"192.168.1.2"}
ReconnDaddrs == {"10.0.0.9"}
ReconnDports == {80, 443}
ReconnTwids == {"timewindow1", "timewindow2"}
ReconnProfileTws == {OwnProfile} \X ReconnTwids

\* inputs of is_p2p
P2PDaddrs == {"5.5.5.1", "5.5.5.2", "5.5.5.3", "5.5.5.4", "5.5.5.5"}
P2PProtos == {"udp", "UDP", "tcp"}
P2PDports == {30000, 30001}

\* an empty dict
EmptyTable == [k \in {} |-> 0]

NoP2PCall == [dport |-> 0, proto |-> "", daddr |-> "", result |-> FALSE]

NoCall == [flow_type |-> "", appproto |-> "", daddr |-> "", twid |-> "",
           profileid |-> <<>>, timestamp |-> "", uid |-> ""]

VARIABLES
  \* Conn.connections_checked_in_conn_dns_timer_thread (a list of uids)
  connections_checked_in_conn_dns_timer_thread,
  \* the TimerThread objects started so far, in order of creation
  timers,
  \* the main path: the call of the check it is in, if any
  main,
  \* what set_evidence has been asked to emit, in order
  evidence,
  \* number of new_flow messages consumed
  flows_consumed,
  \* history: per uid, the number of calls that got to the list test of line 470
  evaluations,
  \* history: the timer threads that were waiting when the main path
  \* consumed a flow
  overtaken,
  \* the store: destinations with a DNS resolution in the last 24 hours
  ip_resolved,
  \* the store: destinations whose resolution was made by the other IP version
  resolved_by_other,
  \* destinations whose SNI/rDNS/ASN matches a well-known organization
  well_known_org,
  \* db.get_input_type()
  input_type,
  \* minutes elapsed since db.get_slips_start_time()
  minutes_since_start,
  \* the store: per (profileid, twid), the reconnection table that
  \* get_reconnections_for_tw reads and setReconnections writes
  reconnections_store,
  \* history: per (twid, key), the uids of the REJ flows handled, in order
  rej_seen,
  \* number of flows handed to check_multiple_reconnection_attempts
  reconn_flows,
  \* Conn.p2p_daddrs
  p2p_daddrs,
  \* history: per daddr, the number of UDP connections with dport > 30000
  p2p_hits,
  \* history: the last call of is_p2p and what it returned
  p2p_last,
  \* number of calls of is_p2p
  p2p_calls,
  \* the store: the flows of every profile, in the order they were stored
  flows_store,
  \* number of tw_closed messages consumed
  tw_closed_count,
  \* the store: the source IPs marked as seen in conn.log
  seen_in_connlog,
  \* the store: per MAC, the list of IPs bound to it
  mac_bindings,
  \* history: per source IP, the conn flows handed to
  \* check_device_changing_ips and those on which the MAC/IP comparison ran
  device_history,
  \* number of calls of check_device_changing_ips
  device_flows,
  \* the store: per direction, what get_data_from_profile_tw returns
  established_store,
  \* history: the last call of detect_connection_to_multiple_ports and how
  \* it ended
  ports_last,
  \* number of calls of detect_connection_to_multiple_ports
  ports_calls,
  \* history: the checks Conn.analyze called for the last new_flow message
  \* and the exception that ended it, if any
  analyze_last,
  \* number of new_flow messages handed to Conn.analyze
  analyze_events,
  \* the store: db.get_local_network()
  local_network,
  \* history: the last flow handed to both calls of
  \* check_different_localnet_usage and which of them emitted
  localnet_last,
  \* number of flows handed to check_different_localnet_usage
  localnet_flows,
  \* history: the last call of one of the checks that keep no state of
  \* their own (port 0, unknown port, long connection) and its outcome
  check_last,
  \* number of such calls
  check_calls,
  \* DNS.nxdomains: per profileid_twid, the (queries, uids) accumulated
  nxdomains,
  \* DNS.dns_arpa_queries: per profileid, the timestamps of the ARPA queries
  dns_arpa_queries,
  \* the store: the answers that have a cached DNS resolution
  dns_resolutions,
  \* history: the last call of a check of the DNS analyzer and its outcome
  dns_last,
  \* number of such calls
  dns_calls,
  \* the store: the lines Timeline added with db.add_timeline_line, in order
  timeline_lines,
  \* history: the last new_flow message the Timeline module consumed and how
  \* process_flow ended
  timeline_last,
  \* number of such messages
  timeline_msgs

dnsVars ==
  <<connections_checked_in_conn_dns_timer_thread, timers, main, evidence,
    flows_consumed, evaluations, overtaken, ip_resolved, resolved_by_other, well_known_org,
    input_type, minutes_since_start>>

reconnVars == <<reconnections_store, rej_seen, reconn_flows>>

p2pVars == <<p2p_daddrs, p2p_hits, p2p_last, p2p_calls>>

uploadVars == <<flows_store, tw_closed_count>>

deviceVars == <<seen_in_connlog, mac_bindings, device_history, device_flows>>

portsVars == <<established_store, ports_last, ports_calls>>

analyzeVars == <<analyze_last, analyze_events>>

localnetVars == <<local_network, localnet_last, localnet_flows>>

checkVars == <<check_last, check_calls>>

dnsAnalyzerVars ==
  <<nxdomains, dns_arpa_queries, dns_resolutions, dns_last, dns_calls>>

timelineVars == <<timeline_lines, timeline_last, timeline_msgs>>

vars ==
  <<dnsVars, reconnVars, p2pVars, uploadVars, deviceVars, portsVars,
    analyzeVars, localnetVars, checkVars, dnsAnalyzerVars, timelineVars>>

\* what the connection-without-DNS check never touches
notDnsVars ==
  <<reconnVars, p2pVars, uploadVars, deviceVars, portsVars, analyzeVars,
    localnetVars, checkVars, dnsAnalyzerVars, timelineVars>>

\* the state of the Conn and DNS analyzers other than the
\* connection-without-DNS check
notDnsNorTimelineVars ==
  <<reconnVars, p2pVars, uploadVars, deviceVars, portsVars, analyzeVars,
    localnetVars, checkVars, dnsAnalyzerVars>>

\* the state of the connection-without-DNS check other than the evidence
dnsVarsButEvidence ==
  <<connections_checked_in_conn_dns_timer_thread, timers, main,
    flows_consumed, evaluations, overtaken, ip_resolved, resolved_by_other,
    well_known_org, input_type, minutes_since_start>>

\* the state of the Conn analyzer and of its checks, other than the evidence
connButEvidence ==
  <<dnsVarsButEvidence, reconnVars, p2pVars, uploadVars, deviceVars,
    portsVars, analyzeVars, localnetVars, checkVars>>

(***************************************************************************)
(* Helpers                                                                 *)
(***************************************************************************)
Range(s) == {s[i] : i \in 1..Len(s)}

\* list.remove(x) under contextlib.suppress(ValueError): drops the first
\* occurrence of x, and leaves the list alone when x is absent
RECURSIVE ListRemove(_, _)
ListRemove(s, x) ==
  IF s = <<>> THEN <<>>
  ELSE IF Head(s) = x THEN Tail(s)
  ELSE <<Head(s)>> \o ListRemove(Tail(s), x)

\* list.remove(x) raises ValueError when x is not in the list
ListRemoveRaises(s, x) == IF x \in Range(s) THEN "" ELSE "ValueError"

\* a with statement that lets every exception through
SuppressNothing(raised) == raised

\* with contextlib.suppress(ValueError): the exception that leaves the with
\* statement, "" for none
suppress(raised) == IF raised = "ValueError" THEN "" ELSE raised

\* profileid.split("_")[-1]
SaddrOf(profileid) == profileid[Len(profileid)]

(***************************************************************************)
(* Conn.should_ignore_conn_without_dns                                     *)
(***************************************************************************)
\* utils.is_ignored_ip(daddr)
is_ignored_ip(daddr) == daddr = IgnoredDaddr
\* db.is_doh_server(daddr)
is_doh_server(daddr) == daddr = DoHDaddr
\* dns.query.udp(query, ip, timeout): the exception the probe ends in, ""
\* when the address answers
dns_query_udp(ip) ==
  CASE ip = DnsServerDaddr -> ""
    [] ip = PlainDaddr -> "Timeout"
    [] OTHER -> "Exception"

ProbeCaughtOnTimeout(exc) == exc = "Timeout"

\* the exceptions of the probe that is_dns_server catches: all of them
ProbeCaught(exc) == TRUE

\* one call of is_dns_server: what it returns, and the exception it lets
\* through ("" when none)
IsDnsServerOutcome(ip) ==
  LET exc == dns_query_udp(ip) IN
  IF exc = "" THEN [returned |-> TRUE, raised |-> ""]
  ELSE IF ProbeCaught(exc) THEN [returned |-> FALSE, raised |-> ""]
  ELSE [returned |-> FALSE, raised |-> exc]

\* dns_analyzer.is_dns_server(daddr)
is_dns_server(daddr) == IsDnsServerOutcome(daddr).returned

\* the check without its DoH server exception
ShouldIgnoreWithoutDoH(flow_type, appproto, daddr) ==
  \/ flow_type # "conn"
  \/ appproto \in {"dns", "icmp"}
  \/ is_ignored_ip(daddr)
  \/ daddr \in client_ips
  \/ input_type = "zeek_log_file"
  \/ is_dns_server(daddr)

should_ignore_conn_without_dns(flow_type, appproto, daddr) ==
  \/ flow_type # "conn"
  \/ appproto \in {"dns", "icmp"}
  \/ is_ignored_ip(daddr)
  \/ daddr \in client_ips
  \/ input_type = "zeek_log_file"
  \/ is_doh_server(daddr)
  \/ is_dns_server(daddr)

\* "-i" in sys.argv or self.db.is_growing_zeek_dir()
LiveCapture == input_type = "interface"

\* the early return of live capture without the test of the source address
LiveCaptureReturnsAnySource(profileid) ==
  /\ LiveCapture
  /\ minutes_since_start < conn_without_dns_interface_wait_time

\* lines 451-464: the early return of live capture
LiveCaptureReturns(profileid) ==
  /\ LiveCapture
  /\ \/ SaddrOf(profileid) \notin our_ips
     \/ minutes_since_start < conn_without_dns_interface_wait_time

\* db.is_ip_resolved(daddr, 24)
is_ip_resolved(daddr, hours) == hours = ResolutionHours /\ daddr \in ip_resolved

\* lines 437-468: TRUE when the call returns before it reads the list
ReturnsEarly(c) ==
  \/ should_ignore_conn_without_dns(c.flow_type, c.appproto, c.daddr)
  \/ LiveCaptureReturns(c.profileid)
  \/ is_ip_resolved(c.daddr, ResolutionHours)

\* Conn.check_if_resolution_was_made_by_different_version
check_if_resolution_was_made_by_different_version(profileid, daddr) ==
  daddr \in resolved_by_other

\* Conn.is_well_known_org
is_well_known_org(daddr) == daddr \in well_known_org

(***************************************************************************)
(* TimerThread and the arguments handed to it                              *)
(***************************************************************************)
\* the list with its first two entries in the wrong order
ParamsAppprotoFirst(c) ==
  <<c.appproto, c.flow_type, c.daddr, c.twid, c.profileid, c.timestamp, c.uid>>

\* params = [flow_type, appproto, daddr, twid, profileid, timestamp, uid]
Params(c) ==
  <<c.flow_type, c.appproto, c.daddr, c.twid, c.profileid, c.timestamp, c.uid>>

\* target(*params): the positional binding of the list to the parameters of
\* check_connection_without_dns_resolution
Bind(p) ==
  [flow_type |-> p[1], appproto |-> p[2], daddr |-> p[3], twid |-> p[4],
   profileid |-> p[5], timestamp |-> p[6], uid |-> p[7]]

\* TimerThread(15, target, params).start(): a thread that sleeps and then
\* runs target(*params) once. History kept with the thread: by is the call
\* that started it, runs counts the times its target was called, outcome is
\* how its re-check ended.
TimerThread(delay, params, by) ==
  [pc |-> "waiting", delay |-> delay, args |-> Bind(params), by |-> by,
   runs |-> 0, outcome |-> ""]

(***************************************************************************)
(* Execution paths: 0 is the main path, t > 0 is timer thread t            *)
(***************************************************************************)
Paths == 0..Len(timers)
Path(p) == IF p = 0 THEN main ELSE timers[p]
Returned(p) == IF p = 0 THEN "idle" ELSE "done"

\* the path p moves to pc, the other paths stay; a timer thread that
\* returns notes how (outcome)
Goto(p, pc, outcome) ==
  IF p = 0
  THEN /\ main' = IF pc = "idle" THEN [pc |-> "idle", args |-> NoCall]
                  ELSE [main EXCEPT !.pc = pc]
       /\ timers' = timers
  ELSE /\ timers' = [timers EXCEPT ![p].pc = pc,
                                   ![p].outcome = IF pc = "done" THEN outcome ELSE @]
       /\ main' = main

pathVars ==
  <<connections_checked_in_conn_dns_timer_thread, timers, main, evidence,
    flows_consumed, evaluations, overtaken>>

storeVars == <<ip_resolved, resolved_by_other, well_known_org, input_type,
               minutes_since_start>>

envVars == <<overtaken, storeVars>>

(***************************************************************************)
(* Conn.check_connection_without_dns_resolution, step by step              *)
(***************************************************************************)
\* analyze() consumes a new_flow message and calls the check: lines 437-468
NewFlow(c) ==
  /\ main.pc = "idle"
  /\ flows_consumed < MaxFlows
  /\ flows_consumed' = flows_consumed + 1
  /\ main' = IF ReturnsEarly(c) THEN [pc |-> "idle", args |-> NoCall]
             ELSE [pc |-> "member", args |-> c]
  /\ overtaken' = overtaken \cup {t \in 1..Len(timers) : timers[t].pc = "waiting"}
  /\ UNCHANGED <<connections_checked_in_conn_dns_timer_thread, timers,
                 evidence, evaluations, storeVars, notDnsVars>>

\* the delay of timer t has elapsed: it calls the check, lines 437-468
TimerFire(t) ==
  /\ t \in 1..Len(timers)
  /\ timers[t].pc = "waiting"
  /\ timers' = [timers EXCEPT
                  ![t].pc = IF ReturnsEarly(timers[t].args) THEN "done"
                            ELSE "member",
                  ![t].outcome = IF ReturnsEarly(timers[t].args) THEN "returned_early"
                                 ELSE @,
                  ![t].runs = @ + 1]
  /\ UNCHANGED <<connections_checked_in_conn_dns_timer_thread, main,
                 evidence, flows_consumed, evaluations, envVars, notDnsVars>>

\* line 470: if uid not in self.connections_checked_in_conn_dns_timer_thread
Member(p) ==
  /\ Path(p).pc = "member"
  /\ IF Path(p).args.uid \notin Range(connections_checked_in_conn_dns_timer_thread)
     THEN Goto(p, "append", "")
     ELSE Goto(p, "recheck", "")
  /\ evaluations' = [evaluations EXCEPT ![Path(p).args.uid] = @ + 1]
  /\ UNCHANGED <<connections_checked_in_conn_dns_timer_thread, evidence,
                 flows_consumed, envVars, notDnsVars>>

\* lines 474-493: the uid is appended to the list, the timer thread is
\* created and started, and the call returns. No other path reads the
\* timers, so the append and the start are taken as one step.
AppendAndStartTimer(p) ==
  /\ Path(p).pc = "append"
  /\ connections_checked_in_conn_dns_timer_thread' =
       Append(connections_checked_in_conn_dns_timer_thread, Path(p).args.uid)
  /\ LET new == TimerThread(TimerDelay, Params(Path(p).args), Path(p).args)
     IN IF p = 0
        THEN /\ timers' = Append(timers, new)
             /\ main' = [pc |-> "idle", args |-> NoCall]
        ELSE /\ timers' = Append([timers EXCEPT ![p].pc = "done",
                                                ![p].outcome = "rescheduled"], new)
             /\ main' = main
  /\ UNCHANGED <<evidence, flows_consumed, evaluations, envVars, notDnsVars>>

\* lines 501-513: the two exemptions of the else branch, which read the
\* store only, and set_evidence.conn_without_dns(...) when neither holds
RecheckAndEmit(p) ==
  /\ Path(p).pc = "recheck"
  /\ IF \/ check_if_resolution_was_made_by_different_version(
              Path(p).args.profileid, Path(p).args.daddr)
        \/ is_well_known_org(Path(p).args.daddr)
     THEN /\ Goto(p, Returned(p), "exempted")
          /\ evidence' = evidence
     ELSE /\ Goto(p, "remove", "")
          /\ evidence' = Append(evidence,
               [type |-> "conn_without_dns", daddr |-> Path(p).args.daddr,
                timestamp |-> Path(p).args.timestamp,
                profileid |-> Path(p).args.profileid, twid |-> Path(p).args.twid,
                uid |-> Path(p).args.uid, path |-> p])
  /\ UNCHANGED <<connections_checked_in_conn_dns_timer_thread,
                 flows_consumed, evaluations, envVars, notDnsVars>>

\* lines 516-517: the uid is removed from the list, the call returns
Remove(p) ==
  /\ Path(p).pc = "remove"
  /\ connections_checked_in_conn_dns_timer_thread' =
       ListRemove(connections_checked_in_conn_dns_timer_thread, Path(p).args.uid)
  /\ LET raised == suppress(ListRemoveRaises(
                      connections_checked_in_conn_dns_timer_thread,
                      Path(p).args.uid))
     IN Goto(p, Returned(p), IF raised = "" THEN "evidence" ELSE raised)
  /\ UNCHANGED <<evidence, flows_consumed, evaluations, envVars, notDnsVars>>

(***************************************************************************)
(* The environment: the store fills, time passes                           *)
(***************************************************************************)
\* a DNS answer for the destination is cached in the store
DnsResolutionCached ==
  /\ PlainDaddr \notin ip_resolved
  /\ ip_resolved' = ip_resolved \cup {PlainDaddr}
  /\ UNCHANGED <<pathVars, resolved_by_other, well_known_org, input_type,
                 minutes_since_start, notDnsVars>>

\* the other IP version of the profile is recorded as the resolver
ResolvedByOtherVersion ==
  /\ PlainDaddr \notin resolved_by_other
  /\ resolved_by_other' = resolved_by_other \cup {PlainDaddr}
  /\ UNCHANGED <<pathVars, ip_resolved, well_known_org, input_type,
                 minutes_since_start, notDnsVars>>

\* SNI/rDNS/ASN information identifying a well-known organization arrives
OrgIdentified ==
  /\ PlainDaddr \notin well_known_org
  /\ well_known_org' = well_known_org \cup {PlainDaddr}
  /\ UNCHANGED <<pathVars, ip_resolved, resolved_by_other, input_type,
                 minutes_since_start, notDnsVars>>

\* datetime.now() advances; the clock is read in live capture only
Tick ==
  /\ LiveCapture
  /\ minutes_since_start + TickMinutes <= MaxMinutes
  /\ minutes_since_start' = minutes_since_start + TickMinutes
  /\ UNCHANGED <<pathVars, ip_resolved, resolved_by_other, well_known_org,
                 input_type, notDnsVars>>

(***************************************************************************)
(* Conn.check_multiple_reconnection_attempts                               *)
(***************************************************************************)
\* key = f"{saddr}-{daddr}-{dport}"
ReconnKey(saddr, daddr, dport) == <<saddr, daddr, dport>>

ReconnKeys ==
  {ReconnKey(sa, da, dp) : sa \in ReconnSaddrs, da \in ReconnDaddrs, dp \in ReconnDports}

\* db.get_reconnections_for_tw(profileid, twid): the table as the store
\* holds it, handed out as a fresh dict on every call
get_reconnections_for_tw(profileid, twid) ==
  reconnections_store[<<profileid, twid>>]

\* db.setReconnections(profileid, twid, table)
setReconnections(profileid, twid, table) ==
  [reconnections_store EXCEPT ![<<profileid, twid>>] = table]

\* a dict with d[key] = value
DictSet(d, key, value) ==
  [k \in DOMAIN d \cup {key} |-> IF k = key THEN value ELSE d[k]]

\* lines 211-218 on the dict read from the store: the new count and uid list
\* of the key, and the dict after the assignment
ReconnCount(cur, key) ==
  IF key \in DOMAIN cur THEN cur[key][1] + 1 ELSE 1

ReconnUids(cur, key, uid) ==
  IF key \in DOMAIN cur THEN Append(cur[key][2], uid) ELSE <<uid>>

\* line 232 on a table of two keys or more, as a reset of every key
ReconnResetAll(table, key) ==
  [k \in DOMAIN table \cup {key} |-> <<0, <<>>>>]

\* line 232: current_reconnections[key] = (0, [])
ReconnReset(table, key) == DictSet(table, key, <<0, <<>>>>)

\* one call of check_multiple_reconnection_attempts, lines 201-234; the flow
\* gets the next uid
ReconnFlow(origstate, saddr, daddr, dport, profileid, twid) ==
  /\ reconn_flows < MaxReconnFlows
  /\ reconn_flows' = reconn_flows + 1
  /\ LET uid == reconn_flows + 1
         key == ReconnKey(saddr, daddr, dport)
         cur == get_reconnections_for_tw(profileid, twid)
         reconnections == ReconnCount(cur, key)
         uids == ReconnUids(cur, key, uid)
         current_reconnections == DictSet(cur, key, <<reconnections, uids>>)
     IN IF origstate # "REJ"
        THEN UNCHANGED <<reconnections_store, rej_seen, evidence>>
        ELSE /\ rej_seen' = [rej_seen EXCEPT ![<<twid, key>>] = Append(@, uid)]
             /\ IF reconnections < ReconnectionThreshold
                THEN UNCHANGED <<reconnections_store, evidence>>
                ELSE /\ evidence' = Append(evidence,
                          [type |-> "multiple_reconnection_attempts",
                           profileid |-> profileid, twid |-> twid,
                           daddr |-> daddr, key |-> key, uids |-> uids,
                           reconnections |-> reconnections])
                     /\ reconnections_store' =
                          setReconnections(profileid, twid,
                            ReconnReset(current_reconnections, key))
  /\ UNCHANGED <<dnsVarsButEvidence, p2pVars, uploadVars, deviceVars,
                 portsVars, analyzeVars, localnetVars, checkVars,
                 dnsAnalyzerVars,
                 timelineVars>>

(***************************************************************************)
(* Conn.is_p2p                                                             *)
(***************************************************************************)
\* proto.lower()
Lower(proto) ==
  CASE proto = "UDP" -> "udp"
    [] proto = "TCP" -> "tcp"
    [] proto = "ICMP" -> "icmp"
    [] proto = "IPv6-ICMP" -> "ipv6-icmp"
    [] OTHER -> proto

\* the condition of line 81
IsHighPortUdp(dport, proto) == Lower(proto) = "udp" /\ dport > P2PPortFloor

\* lines 82-90: TRUE when the call returns at line 85
P2PReturnsAtOnce(dport, proto, daddr) ==
  /\ IsHighPortUdp(dport, proto)
  /\ daddr \in DOMAIN p2p_daddrs
  /\ p2p_daddrs[daddr] >= P2PDaddrHits

P2PDaddrsForgetting(dport, proto, daddr) ==
  IF ~IsHighPortUdp(dport, proto) \/ P2PReturnsAtOnce(dport, proto, daddr)
  THEN p2p_daddrs
  ELSE IF daddr \in DOMAIN p2p_daddrs /\ p2p_daddrs[daddr] < 3
       THEN DictSet(p2p_daddrs, daddr, p2p_daddrs[daddr] + 1)
       ELSE DictSet(p2p_daddrs, daddr, 1)

\* lines 82-90: self.p2p_daddrs after the call
P2PDaddrsAfter(dport, proto, daddr) ==
  IF ~IsHighPortUdp(dport, proto) \/ P2PReturnsAtOnce(dport, proto, daddr)
  THEN p2p_daddrs
  ELSE IF daddr \in DOMAIN p2p_daddrs
       THEN DictSet(p2p_daddrs, daddr, p2p_daddrs[daddr] + 1)
       ELSE DictSet(p2p_daddrs, daddr, 1)

\* what is_p2p returns
is_p2p(dport, proto, daddr) ==
  /\ IsHighPortUdp(dport, proto)
  /\ \/ P2PReturnsAtOnce(dport, proto, daddr)
     \/ Cardinality(DOMAIN P2PDaddrsAfter(dport, proto, daddr)) >= P2PDistinctDaddrs

\* one call of is_p2p
P2PCall(dport, proto, daddr) ==
  /\ p2p_calls < MaxP2PCalls
  /\ p2p_calls' = p2p_calls + 1
  /\ p2p_daddrs' = P2PDaddrsAfter(dport, proto, daddr)
  /\ p2p_last' = [dport |-> dport, proto |-> proto, daddr |-> daddr,
                  result |-> is_p2p(dport, proto, daddr)]
  /\ p2p_hits' = IF IsHighPortUdp(dport, proto)
                 THEN [p2p_hits EXCEPT ![daddr] = @ + 1]
                 ELSE p2p_hits
  /\ UNCHANGED <<dnsVars, reconnVars, uploadVars, deviceVars, portsVars,
                 analyzeVars, localnetVars, checkVars,
                 dnsAnalyzerVars,
                 timelineVars>>

(***************************************************************************)
(* Conn.check_data_upload and Conn.detect_data_upload_in_twid              *)
(***************************************************************************)
\* self.gateway = self.db.get_gateway_ip()
gateway == "192.168.1.1"

MulticastDaddr == "224.0.0.251"
LinkLocalDaddr == "169.254.1.1"
ReservedDaddr == "240.0.0.1"

\* ipaddress.ip_address(ip).is_multicast, .is_link_local, .is_reserved
is_multicast(ip) == ip = MulticastDaddr
is_link_local(ip) == ip = LinkLocalDaddr
is_reserved(ip) == ip = ReservedDaddr

\* the destinations and byte counts of the flows of the upload checks
UploadDaddrs ==
  {"", gateway, MulticastDaddr, LinkLocalDaddr, ReservedDaddr, PlainDaddr}
UploadSbytes ==
  {0, flow_upload_threshold * BytesPerMb - 1, flow_upload_threshold * BytesPerMb,
   data_exfiltration_threshold * BytesPerMb}
TwDaddrs == {PlainDaddr, MulticastDaddr}
TwSbytes ==
  {0, (data_exfiltration_threshold \div 2) * BytesPerMb,
   data_exfiltration_threshold * BytesPerMb}
UploadTwids == {"timewindow1", "timewindow2"}

\* Conn.is_ignored_ip_data_upload
is_ignored_ip_data_upload(ip) ==
  \/ ip = gateway
  \/ is_multicast(ip)
  \/ is_link_local(ip)
  \/ is_reserved(ip)

\* utils.convert_to_mb(bytes): bytes / 10**6, as the whole MBs and the
\* millionths of an MB left over
convert_to_mb(bytes) == <<bytes \div BytesPerMb, bytes % BytesPerMb>>

\* mbs > threshold, for a whole threshold
ExceedsThreshold(mbs, threshold) ==
  mbs[1] > threshold \/ (mbs[1] = threshold /\ mbs[2] > 0)

\* mbs >= threshold, for a whole threshold
ReachesThreshold(mbs, threshold) == mbs[1] >= threshold

\* the evidence set_evidence.data_exfiltration is asked to emit
DataExfiltration(daddr, mbs, profileid, twid, uids, by) ==
  [type |-> "data_exfiltration", daddr |-> daddr, mbs |-> mbs,
   profileid |-> profileid, twid |-> twid, uids |-> uids, by |-> by]

\* what check_data_upload returns, lines 367-381
check_data_upload(sbytes, daddr) ==
  /\ ~(daddr = "" \/ is_ignored_ip_data_upload(daddr) \/ sbytes = 0)
  /\ ReachesThreshold(convert_to_mb(sbytes), flow_upload_threshold)

\* a new_flow message as far as the upload checks go: the store holds the
\* flow under the next uid, and analyze calls check_data_upload (line 909)
UploadFlow(sbytes, daddr, profileid, twid) ==
  /\ Len(flows_store) < MaxUploadFlows
  /\ LET uid == Len(flows_store) + 1
     IN /\ flows_store' = Append(flows_store,
               [uid |-> uid, profileid |-> profileid, twid |-> twid,
                daddr |-> daddr, sbytes |-> sbytes, starttime |-> uid])
        /\ evidence' =
             IF check_data_upload(sbytes, daddr)
             THEN Append(evidence,
                    DataExfiltration(daddr, convert_to_mb(sbytes), profileid,
                                     twid, <<uid>>, "check_data_upload"))
             ELSE evidence
  /\ UNCHANGED <<dnsVarsButEvidence, reconnVars, p2pVars, tw_closed_count,
                 deviceVars, portsVars, analyzeVars, localnetVars, checkVars,
                 dnsAnalyzerVars,
                 timelineVars>>

\* db.get_all_flows_in_profileid(profileid)
get_all_flows_in_profileid(profileid) ==
  SelectSeq(flows_store, LAMBDA f : f.profileid = profileid)

SentBytesKeepLast(bytes_sent, flow) ==
  IF \E i \in 1..Len(bytes_sent) : bytes_sent[i].daddr = flow.daddr
  THEN [i \in 1..Len(bytes_sent) |->
          IF bytes_sent[i].daddr = flow.daddr
          THEN [daddr |-> flow.daddr,
                bytes |-> flow.sbytes,
                uids |-> Append(bytes_sent[i].uids, flow.uid),
                ts |-> flow.starttime]
          ELSE bytes_sent[i]]
  ELSE Append(bytes_sent,
         [daddr |-> flow.daddr, bytes |-> flow.sbytes, uids |-> <<flow.uid>>,
          ts |-> flow.starttime])

\* lines 274-280: bytes_sent after the flow is added to it; bytes_sent is a
\* dict, kept here as the list of its entries in insertion order
SentBytesAdd(bytes_sent, flow) ==
  IF \E i \in 1..Len(bytes_sent) : bytes_sent[i].daddr = flow.daddr
  THEN [i \in 1..Len(bytes_sent) |->
          IF bytes_sent[i].daddr = flow.daddr
          THEN [daddr |-> flow.daddr,
                bytes |-> bytes_sent[i].bytes + flow.sbytes,
                uids |-> Append(bytes_sent[i].uids, flow.uid),
                ts |-> flow.starttime]
          ELSE bytes_sent[i]]
  ELSE Append(bytes_sent,
         [daddr |-> flow.daddr, bytes |-> flow.sbytes, uids |-> <<flow.uid>>,
          ts |-> flow.starttime])

\* Conn.get_sent_bytes
RECURSIVE get_sent_bytes(_)
get_sent_bytes(all_flows) ==
  IF all_flows = <<>> THEN <<>>
  ELSE LET flow == all_flows[Len(all_flows)]
           bytes_sent == get_sent_bytes(SubSeq(all_flows, 1, Len(all_flows) - 1))
       IN IF is_ignored_ip_data_upload(flow.daddr) \/ flow.sbytes = 0
          THEN bytes_sent
          ELSE SentBytesAdd(bytes_sent, flow)

\* lines 298-307: the evidence of the entries of bytes_sent, in order
RECURSIVE TwEvidence(_, _, _)
TwEvidence(bytes_sent, profileid, twid) ==
  IF bytes_sent = <<>> THEN <<>>
  ELSE LET ip_info == Head(bytes_sent)
           mbs_uploaded == convert_to_mb(ip_info.bytes)
           rest == TwEvidence(Tail(bytes_sent), profileid, twid)
       IN IF ~ReachesThreshold(mbs_uploaded, data_exfiltration_threshold)
          THEN rest
          ELSE <<DataExfiltration(ip_info.daddr, mbs_uploaded, profileid, twid,
                                  ip_info.uids, "detect_data_upload_in_twid")>>
               \o rest

\* a tw_closed message: Conn.detect_data_upload_in_twid(profileid, twid)
TwClosed(profileid, twid) ==
  /\ tw_closed_count < MaxTwClosed
  /\ tw_closed_count' = tw_closed_count + 1
  /\ LET all_flows == get_all_flows_in_profileid(profileid)
     IN evidence' =
          IF all_flows = <<>> THEN evidence
          ELSE evidence \o TwEvidence(get_sent_bytes(all_flows), profileid, twid)
  /\ UNCHANGED <<dnsVarsButEvidence, reconnVars, p2pVars, flows_store,
                 deviceVars, portsVars, analyzeVars, localnetVars, checkVars,
                 dnsAnalyzerVars,
                 timelineVars>>

(***************************************************************************)
(* Conn.check_device_changing_ips                                          *)
(***************************************************************************)
PublicProfile == <<"profile", "8.8.4.4">>
V6Profile == <<"profile", "fd00::2">>
DeviceProfiles == {OwnProfile, PublicProfile, V6Profile}
DeviceMacs == {"", "aa:bb:cc:dd:ee:01"}

\* ipaddress.ip_address(ip): the version of the address and its groups (the
\* four octets of an IPv4 address, the eight groups of an IPv6 address)
ip_address(ip) ==
  CASE ip = "192.168.1.2" -> [version |-> 4, groups |-> <<192, 168, 1, 2>>]
    [] ip = "192.168.1.7" -> [version |-> 4, groups |-> <<192, 168, 1, 7>>]
    [] ip = "10.0.0.9" -> [version |-> 4, groups |-> <<10, 0, 0, 9>>]
    [] ip = "172.16.0.9" -> [version |-> 4, groups |-> <<172, 16, 0, 9>>]
    [] ip = "8.8.4.4" -> [version |-> 4, groups |-> <<8, 8, 4, 4>>]
    [] ip = "fd00::2" -> [version |-> 6, groups |-> <<64768, 0, 0, 0, 0, 0, 0, 2>>]

\* the number of bits of the i-th octet that a prefix of prefixlen bits covers
PrefixBitsOfOctet(prefixlen, i) ==
  IF prefixlen >= 8 * i THEN 8
  ELSE IF prefixlen <= 8 * (i - 1) THEN 0
  ELSE prefixlen - 8 * (i - 1)

\* ip_obj in ipaddress.IPv4Network(network): the leading prefixlen bits of
\* the address are those of the network, octet by octet
InIPv4Network(ip_obj, network) ==
  /\ ip_obj.version = 4
  /\ \A i \in 1..4 :
       LET low == 2^(8 - PrefixBitsOfOctet(network.prefixlen, i))
       IN ip_obj.groups[i] \div low = network.groups[i] \div low

\* validators.ipv4(ip)
ipv4(ip) == ip_address(ip).version = 4

\* utils.is_private_ip(ipaddress.ip_address(ip)): the address is in one of
\* the private ranges 10.0.0.0/8, 172.16.0.0/12, 192.168.0.0/16, fc00::/7
is_private_ip(ip) ==
  LET ip_obj == ip_address(ip)
  IN IF ip_obj.version = 4
     THEN \/ InIPv4Network(ip_obj, [groups |-> <<10, 0, 0, 0>>, prefixlen |-> 8])
          \/ InIPv4Network(ip_obj, [groups |-> <<172, 16, 0, 0>>, prefixlen |-> 12])
          \/ InIPv4Network(ip_obj, [groups |-> <<192, 168, 0, 0>>, prefixlen |-> 16])
     ELSE ip_obj.groups[1] \div 512 = 64512 \div 512

\* what the store may hold as the IPs of a MAC: nothing, the source IP
\* itself, another IPv4, an IPv6 only, an IPv6 and another IPv4
MacBindingChoices ==
  {<<>>, <<"192.168.1.2">>, <<"192.168.1.7">>, <<"fd00::2">>,
   <<"fd00::2", "192.168.1.7">>}

\* db.was_ip_seen_in_connlog_before(saddr)
was_ip_seen_in_connlog_before(saddr) == saddr \in seen_in_connlog

\* db.get_ip_of_mac(smac): the list of IPs of the MAC, empty when the store
\* has none
get_ip_of_mac(smac) == mac_bindings[smac]

\* lines 318-334 without the test of line 331
DeviceComparesAlways(flow_type, smac, saddr) ==
  /\ flow_type = "conn"
  /\ smac # ""
  /\ ipv4(saddr) /\ is_private_ip(saddr)

\* lines 318-334: TRUE when the call gets past the four returns, to mark
\* the source IP and read the IPs of its MAC
DeviceCompares(flow_type, smac, saddr) ==
  /\ flow_type = "conn"
  /\ smac # ""
  /\ ipv4(saddr) /\ is_private_ip(saddr)
  /\ ~was_ip_seen_in_connlog_before(saddr)

\* lines 342-352: the IPv4 addresses of the list, in order; old_ip is the
\* first of them, and the for loop ends in its else when there is none
Ipv4sOf(old_ip_list) == SelectSeq(old_ip_list, ipv4)

\* lines 337-359: TRUE when the comparison ends in evidence
DeviceEmits(smac, saddr) ==
  /\ get_ip_of_mac(smac) # <<>>
  /\ Ipv4sOf(get_ip_of_mac(smac)) # <<>>
  /\ Head(Ipv4sOf(get_ip_of_mac(smac))) # saddr

\* one call of check_device_changing_ips; the flow gets the next uid
DeviceFlow(flow_type, smac, profileid, twid) ==
  /\ device_flows < MaxDeviceFlows
  /\ device_flows' = device_flows + 1
  /\ LET uid == device_flows + 1
         saddr == SaddrOf(profileid)
         compares == DeviceCompares(flow_type, smac, saddr)
         h == device_history[saddr]
         conn == h.conn + (IF flow_type = "conn" THEN 1 ELSE 0)
         conn_mac == h.conn_mac
                       + (IF flow_type = "conn" /\ smac # "" THEN 1 ELSE 0)
     IN /\ seen_in_connlog' =
             IF compares THEN seen_in_connlog \cup {saddr} ELSE seen_in_connlog
        /\ device_history' =
             [device_history EXCEPT ![saddr] =
                [conn |-> conn, conn_mac |-> conn_mac,
                 compared |-> IF compares
                              THEN Append(h.compared, <<conn, conn_mac>>)
                              ELSE h.compared]]
        /\ evidence' =
             IF compares /\ DeviceEmits(smac, saddr)
             THEN Append(evidence,
                    [type |-> "device_changing_ips", smac |-> smac,
                     old_ip |-> Head(Ipv4sOf(get_ip_of_mac(smac))),
                     profileid |-> profileid, twid |-> twid, uid |-> uid])
             ELSE evidence
  /\ UNCHANGED <<dnsVarsButEvidence, reconnVars, p2pVars, uploadVars,
                 mac_bindings, portsVars, analyzeVars, localnetVars, checkVars,
                 dnsAnalyzerVars,
                 timelineVars>>

(***************************************************************************)
(* Conn.detect_connection_to_multiple_ports                                *)
(***************************************************************************)
PortsOwnIp == "192.168.1.2"
PortsPeer == "10.0.0.9"
PortsThird == "10.0.0.8"

\* saddr and daddr of a flow of OwnProfile: the profile is the source, the
\* profile is the destination, the profile is neither
PortsEndpoints ==
  {<<PortsOwnIp, PortsPeer>>, <<PortsPeer, PortsOwnIp>>, <<PortsPeer, PortsThird>>}
PortsProtos == {"tcp", "udp"}
PortsStates == {"Established", "Not Established"}
PortsAppProtos == {"", "http"}
PortsDports == {80, 4444}

\* db.get_port_info(f"{dport}/{proto}"): the name of a known port, or ""
get_port_info(dport, proto) ==
  IF dport = 80 /\ proto = "tcp" THEN "http" ELSE ""

\* what the store may hold for one direction of a profile and time window:
\* nothing, the peer with one destination port, the peer with two
PortsTables ==
  {EmptyTable,
   [ip \in {PortsPeer} |-> [dstports |-> <<4444>>, uid |-> <<11>>]],
   [ip \in {PortsPeer} |-> [dstports |-> <<4444, 5555>>, uid |-> <<11, 12>>]]}

\* db.get_data_from_profile_tw(profileid, twid, direction, "Established",
\* "TCP", role, "IPs")
get_data_from_profile_tw(profileid, twid, direction) ==
  established_store[direction]

\* lines 568-577: TRUE when the call returns before it looks at the profile
PortsSkips(proto, state, appproto, dport) ==
  \/ proto # "tcp" \/ state # "Established"
  \/ (IF appproto # "" THEN appproto ELSE get_port_info(dport, proto)) # ""

\* lines 580-650: how the call ends: "returned", "evidence", or "KeyError"
\* for a subscript of the dict with a key it does not hold
PortsOutcome(saddr, daddr, proto, state, appproto, dport, profileid, twid) ==
  IF PortsSkips(proto, state, appproto, dport) THEN "returned"
  ELSE IF profileid[2] = saddr
  THEN LET daddrs == get_data_from_profile_tw(profileid, twid, "Dst")
       IN IF daddr \notin DOMAIN daddrs THEN "returned"
          ELSE IF Len(daddrs[daddr].dstports) <= 1 THEN "returned"
          ELSE "evidence"
  ELSE IF SaddrOf(profileid) = daddr
  THEN LET saddrs == get_data_from_profile_tw(profileid, twid, "Src")
       IN IF saddr \notin DOMAIN saddrs THEN "KeyError"
          ELSE IF Len(saddrs[saddr].dstports) <= 1 THEN "returned"
          ELSE "evidence"
  ELSE "returned"

\* lines 606-619 and 644-650: the evidence of the call
PortsEvidence(saddr, daddr, profileid, twid) ==
  LET client == profileid[2] = saddr
      ips == get_data_from_profile_tw(profileid, twid,
                                      IF client THEN "Dst" ELSE "Src")
      peer == IF client THEN daddr ELSE saddr
  IN [type |-> "connection_to_multiple_ports", profileid |-> profileid,
      twid |-> twid, uids |-> ips[peer].uid, dstports |-> ips[peer].dstports,
      victim |-> IF client THEN daddr ELSE SaddrOf(profileid),
      attacker |-> IF client THEN SaddrOf(profileid) ELSE daddr]

\* one call of detect_connection_to_multiple_ports
PortsCall(saddr, daddr, proto, state, appproto, dport, profileid, twid) ==
  /\ ports_calls < MaxPortsCalls
  /\ ports_calls' = ports_calls + 1
  /\ LET outcome == PortsOutcome(saddr, daddr, proto, state, appproto, dport,
                                 profileid, twid)
     IN /\ ports_last' =
             [saddr |-> saddr, daddr |-> daddr, proto |-> proto,
              state |-> state, appproto |-> appproto, dport |-> dport,
              profileid |-> profileid, outcome |-> outcome]
        /\ evidence' =
             IF outcome = "evidence"
             THEN Append(evidence, PortsEvidence(saddr, daddr, profileid, twid))
             ELSE evidence
  /\ UNCHANGED <<dnsVarsButEvidence, reconnVars, p2pVars, uploadVars,
                 deviceVars, established_store, analyzeVars, localnetVars, checkVars,
                 dnsAnalyzerVars,
                 timelineVars>>

(***************************************************************************)
(* Conn.analyze: the checks of one new_flow message                        *)
(***************************************************************************)
\* the calls of lines 844-938, in order
AnalyzeChecks ==
  <<"check_long_connection", "check_unknown_port",
    "check_multiple_reconnection_attempts", "check_conn_to_port_0",
    "check_different_localnet_usage_srcip",
    "check_different_localnet_usage_dstip",
    "check_connection_without_dns_resolution",
    "detect_connection_to_multiple_ports", "check_data_upload",
    "check_non_http_port_80_conns", "check_connection_to_local_ip",
    "check_device_changing_ips">>

\* flow_dict["dur"]: a number, a string that float() reads, or another string
AnalyzeDurs ==
  {[shape |-> "number", value |-> 10],
   [shape |-> "number", value |-> long_connection_threshold + 500],
   [shape |-> "numeric string", value |-> 10],
   [shape |-> "numeric string", value |-> long_connection_threshold + 500],
   [shape |-> "string", value |-> 0]}

\* flow_dict.get("proto"): None when the record has no proto
AnalyzeProtos == {"udp", "None"}

\* flow_dict.get("sbytes", 0): a number, or a string that int() cannot read
AnalyzeSbytes ==
  {[shape |-> "number", value |-> 0], [shape |-> "string", value |-> 0]}

\* the flows handed to analyze; their other fields are well formed and such
\* that every check returns without evidence and without a change of the
\* analyzer (a dns flow between two public unicast addresses, not
\* established, origstate not REJ, ports not 0)
AnalyzeFlows ==
  [dur : AnalyzeDurs, proto : AnalyzeProtos, sbytes : AnalyzeSbytes]

\* the exception the i-th call of analyze ends in, "" when it returns:
\* float(dur) in check_long_connection (line 66), proto.lower() in the
\* arguments of check_unknown_port (line 849), int(sbytes) in
\* check_data_upload (line 370)
AnalyzeError(i, flow) ==
  IF AnalyzeChecks[i] = "check_long_connection" /\ flow.dur.shape = "string"
  THEN "ValueError"
  ELSE IF AnalyzeChecks[i] = "check_unknown_port" /\ flow.proto = "None"
  THEN "AttributeError"
  ELSE IF AnalyzeChecks[i] = "check_data_upload" /\ flow.sbytes.shape = "string"
  THEN "ValueError"
  ELSE ""

\* lines 844-938: no call of analyze is inside a try, so the calls run in
\* order up to the first one that raises; the calls started, from the i-th
RECURSIVE AnalyzeCalled(_, _)
AnalyzeCalled(i, flow) ==
  IF i > Len(AnalyzeChecks) THEN <<>>
  ELSE IF AnalyzeError(i, flow) # "" THEN <<AnalyzeChecks[i]>>
  ELSE <<AnalyzeChecks[i]>> \o AnalyzeCalled(i + 1, flow)

\* the exception that leaves analyze, "" when it returns
AnalyzeRaised(flow) ==
  LET called == AnalyzeCalled(1, flow)
  IN AnalyzeError(Len(called), flow)

LongConnectionFromThreshold(dur) ==
  /\ dur.shape # "string"
  /\ dur.value >= long_connection_threshold

\* check_long_connection, lines 65-74: TRUE when it emits
check_long_connection(dur) ==
  /\ dur.shape # "string"
  /\ dur.value > long_connection_threshold

\* one new_flow message handed to Conn.analyze; the flow gets the next uid
Analyze(flow) ==
  /\ analyze_events < MaxAnalyzeEvents
  /\ analyze_events' = analyze_events + 1
  /\ analyze_last' = [flow |-> flow, called |-> AnalyzeCalled(1, flow),
                      raised |-> AnalyzeRaised(flow)]
  /\ evidence' =
       IF check_long_connection(flow.dur)
       THEN Append(evidence,
              [type |-> "long_connection", dur |-> flow.dur.value,
               uid |-> analyze_events + 1])
       ELSE evidence
  /\ UNCHANGED <<dnsVarsButEvidence, reconnVars, p2pVars, uploadVars,
                 deviceVars, portsVars, localnetVars, checkVars,
                 dnsAnalyzerVars,
                 timelineVars>>

(***************************************************************************)
(* Conn.check_different_localnet_usage                                     *)
(***************************************************************************)
LocalnetAddrs == {"192.168.1.2", "10.0.0.9", "172.16.0.9", "8.8.4.4", "fd00::2"}

\* db.get_local_network() before the local network is set
NoLocalNetwork == [groups |-> <<>>, prefixlen |-> 0]

\* 192.168.1.0/24 and 10.0.0.0/8
LocalNetworks ==
  {NoLocalNetwork,
   [groups |-> <<192, 168, 1, 0>>, prefixlen |-> 24],
   [groups |-> <<10, 0, 0, 0>>, prefixlen |-> 8]}

\* db.get_local_network()
get_local_network == local_network

\* line 744 with the destination taken for either value of what_to_check
IpToCheckDaddr(saddr, daddr, what_to_check) == daddr

\* line 744
IpToCheck(saddr, daddr, what_to_check) ==
  IF what_to_check = "srcip" THEN saddr ELSE daddr

\* lines 744-769: TRUE when the call emits
check_different_localnet_usage(saddr, daddr, what_to_check) ==
  LET ip_to_check == IpToCheck(saddr, daddr, what_to_check)
      ip_obj == ip_address(ip_to_check)
      own_local_network == get_local_network
  IN /\ own_local_network # NoLocalNetwork
     /\ ipv4(ip_to_check) /\ is_private_ip(ip_to_check)
     /\ ~InIPv4Network(ip_obj, own_local_network)

\* lines 761-769
DifferentLocalnetUsage(daddr, uid, what_to_check) ==
  [type |-> "different_localnet_usage", daddr |-> daddr, uid |-> uid,
   ip_outside_localnet |-> what_to_check]

\* the evidence of one call
LocalnetEvidence(saddr, daddr, uid, what_to_check) ==
  IF check_different_localnet_usage(saddr, daddr, what_to_check)
  THEN <<DifferentLocalnetUsage(daddr, uid, what_to_check)>>
  ELSE <<>>

\* the two calls analyze makes for a flow, lines 871-892; the flow gets the
\* next uid
LocalnetFlow(saddr, daddr) ==
  /\ localnet_flows < MaxLocalnetFlows
  /\ localnet_flows' = localnet_flows + 1
  /\ localnet_last' =
       [saddr |-> saddr, daddr |-> daddr, uid |-> localnet_flows + 1,
        srcip |-> check_different_localnet_usage(saddr, daddr, "srcip"),
        dstip |-> check_different_localnet_usage(saddr, daddr, "dstip")]
  /\ evidence' = evidence
                   \o LocalnetEvidence(saddr, daddr, localnet_flows + 1, "srcip")
                   \o LocalnetEvidence(saddr, daddr, localnet_flows + 1, "dstip")
  /\ UNCHANGED <<dnsVarsButEvidence, reconnVars, p2pVars, uploadVars,
                 deviceVars, portsVars, analyzeVars, local_network, checkVars,
                 dnsAnalyzerVars,
                 timelineVars>>

(***************************************************************************)
(* Specification of the connection-without-DNS check                       *)
(***************************************************************************)
\* the upload checks before any flow
InitUploadVars ==
  /\ flows_store = <<>>
  /\ tw_closed_count = 0

\* the source IPs of the profiles of the device check
DeviceSaddrs == {SaddrOf(profileid) : profileid \in DeviceProfiles}

\* the device check before any flow, over a store that binds the MAC to ips
InitDeviceVars(ips) ==
  /\ seen_in_connlog = {}
  /\ mac_bindings = [smac \in DeviceMacs |-> IF smac = "" THEN <<>> ELSE ips]
  /\ device_history =
       [saddr \in DeviceSaddrs |-> [conn |-> 0, conn_mac |-> 0, compared |-> <<>>]]
  /\ device_flows = 0

NoPortsCall ==
  [saddr |-> "", daddr |-> "", proto |-> "", state |-> "", appproto |-> "",
   dport |-> 0, profileid |-> <<>>, outcome |-> ""]

\* the multi-port check before any call, over a store that holds dst for
\* the destinations of the profile and src for its sources
InitPortsVars(dst, src) ==
  /\ established_store = [direction \in {"Dst", "Src"} |->
                            IF direction = "Dst" THEN dst ELSE src]
  /\ ports_last = NoPortsCall
  /\ ports_calls = 0

NoAnalyze == [flow |-> <<>>, called |-> <<>>, raised |-> ""]

InitAnalyzeVars ==
  /\ analyze_last = NoAnalyze
  /\ analyze_events = 0

NoLocalnetFlow ==
  [saddr |-> "", daddr |-> "", uid |-> 0, srcip |-> FALSE, dstip |-> FALSE]

\* the localnet check before any flow, over a store whose local network is
\* network
InitLocalnetVars(network) ==
  /\ local_network = network
  /\ localnet_last = NoLocalnetFlow
  /\ localnet_flows = 0

\* no call of a stateless check yet
NoCheck == [check |-> "none"]

\* the Timeline module before any message
NoTimelineMsg == [raised |-> "", propagated |-> FALSE, added |-> 0]

InitTimelineVars ==
  /\ timeline_lines = <<>>
  /\ timeline_last = NoTimelineMsg
  /\ timeline_msgs = 0

InitCheckVars ==
  /\ check_last = NoCheck
  /\ check_calls = 0

\* DNS.init(): nothing accumulated, nothing handled yet
NoDnsCall == [check |-> "none"]

InitDnsAnalyzerVars ==
  /\ nxdomains = <<>>
  /\ dns_arpa_queries = <<>>
  /\ dns_resolutions = {}
  /\ dns_last = NoDnsCall
  /\ dns_calls = 0

\* the checks other than connection without DNS, reconnection and P2P,
\* right after Conn.init() and over an empty store
InitOtherChecks ==
  /\ InitUploadVars
  /\ InitDeviceVars(<<>>)
  /\ InitPortsVars(EmptyTable, EmptyTable)
  /\ InitAnalyzeVars
  /\ InitLocalnetVars(NoLocalNetwork)
  /\ InitCheckVars
  /\ InitTimelineVars

\* the analyzer right after Conn.init()
InitConn ==
  /\ InitOtherChecks
  /\ InitDnsAnalyzerVars
  /\ connections_checked_in_conn_dns_timer_thread = <<>>
  /\ timers = <<>>
  /\ main = [pc |-> "idle", args |-> NoCall]
  /\ evidence = <<>>
  /\ flows_consumed = 0
  /\ evaluations = [u \in UIDs |-> 0]
  /\ overtaken = {}
  /\ ip_resolved = {}
  /\ resolved_by_other = {}
  /\ well_known_org = {}
  /\ minutes_since_start = 0
  /\ reconnections_store = [pt \in ReconnProfileTws |-> EmptyTable]
  /\ rej_seen = [tk \in ReconnTwids \X ReconnKeys |-> <<>>]
  /\ reconn_flows = 0
  /\ p2p_daddrs = EmptyTable
  /\ p2p_hits = [d \in P2PDaddrs |-> 0]
  /\ p2p_last = NoP2PCall
  /\ p2p_calls = 0

InitConnDns == InitConn /\ input_type \in InputTypes

NextConnDns ==
  \/ \E c \in Calls : NewFlow(c)
  \/ \E t \in 1..Len(timers) : TimerFire(t)
  \/ \E p \in Paths : Member(p)
  \/ \E p \in Paths : AppendAndStartTimer(p)
  \/ \E p \in Paths : RecheckAndEmit(p)
  \/ \E p \in Paths : Remove(p)
  \/ DnsResolutionCached
  \/ ResolvedByOtherVersion
  \/ OrgIdentified
  \/ Tick

SpecConnDns == InitConnDns /\ [][NextConnDns]_vars

\* the steps of timer thread t
TimerStep(t) ==
  /\ t \in 1..Len(timers)
  /\ \/ TimerFire(t)
     \/ Member(t)
     \/ AppendAndStartTimer(t)
     \/ RecheckAndEmit(t)
     \/ Remove(t)

\* no run starts more timer threads than it consumes flows (C7_TimerSafety)
TimerIds == 1..MaxFlows

\* a started thread is scheduled by the operating system again and again, and
\* its sleep ends: every timer thread that can take a step eventually does
FairConnDns == SpecConnDns /\ \A t \in TimerIds : WF_vars(TimerStep(t))

(***************************************************************************)
(* Specification of the reconnection check                                 *)
(***************************************************************************)
InitReconn == InitConn /\ input_type = "pcap"

NextReconn ==
  \E origstate \in ReconnOrigStates, saddr \in ReconnSaddrs,
     daddr \in ReconnDaddrs, dport \in ReconnDports, twid \in ReconnTwids :
    ReconnFlow(origstate, saddr, daddr, dport, OwnProfile, twid)

SpecReconn == InitReconn /\ [][NextReconn]_vars

\* the reconnection check over a store that already holds entries: the
\* table of timewindow1 has, for some of the keys, an entry one attempt
\* short of the threshold
StoredEntry ==
  <<ReconnectionThreshold - 1,
    [i \in 1..(ReconnectionThreshold - 1) |-> 100 + i]>>

StoredTables ==
  {[k \in ks |-> StoredEntry] :
     ks \in {{}, {ReconnKey("192.168.1.2", "10.0.0.9", 80)}, ReconnKeys}}

InitReconnStored ==
  /\ connections_checked_in_conn_dns_timer_thread = <<>>
  /\ timers = <<>>
  /\ main = [pc |-> "idle", args |-> NoCall]
  /\ evidence = <<>>
  /\ flows_consumed = 0
  /\ evaluations = [u \in UIDs |-> 0]
  /\ overtaken = {}
  /\ ip_resolved = {}
  /\ resolved_by_other = {}
  /\ well_known_org = {}
  /\ minutes_since_start = 0
  /\ input_type = "pcap"
  /\ \E table \in StoredTables :
       reconnections_store =
         [pt \in ReconnProfileTws |->
            IF pt[2] = "timewindow1" THEN table ELSE EmptyTable]
  /\ rej_seen = [tk \in ReconnTwids \X ReconnKeys |-> <<>>]
  /\ reconn_flows = 0
  /\ p2p_daddrs = EmptyTable
  /\ p2p_hits = [d \in P2PDaddrs |-> 0]
  /\ p2p_last = NoP2PCall
  /\ p2p_calls = 0
  /\ InitOtherChecks
  /\ InitDnsAnalyzerVars

SpecReconnStored == InitReconnStored /\ [][NextReconn]_vars

(***************************************************************************)
(* Specification of the P2P heuristic                                      *)
(***************************************************************************)
InitP2P == InitConn /\ input_type = "pcap"

NextP2P ==
  \E dport \in P2PDports, proto \in P2PProtos, daddr \in P2PDaddrs :
    P2PCall(dport, proto, daddr)

SpecP2P == InitP2P /\ [][NextP2P]_vars

(***************************************************************************)
(* Specifications of the upload checks                                     *)
(***************************************************************************)
InitUpload == InitConn /\ input_type = "pcap"

\* the per-flow check on flows of every kind of destination
NextUploadFlow ==
  \E sbytes \in UploadSbytes, daddr \in UploadDaddrs, twid \in UploadTwids :
    UploadFlow(sbytes, daddr, OwnProfile, twid)

SpecUploadFlow == InitUpload /\ [][NextUploadFlow]_vars

\* new_flow and tw_closed messages
NextUpload ==
  \/ \E sbytes \in TwSbytes, daddr \in TwDaddrs, twid \in UploadTwids :
       UploadFlow(sbytes, daddr, OwnProfile, twid)
  \/ \E profileid \in Profiles, twid \in UploadTwids : TwClosed(profileid, twid)

SpecUpload == InitUpload /\ [][NextUpload]_vars

(***************************************************************************)
(* Specification of the device check                                       *)
(***************************************************************************)
\* the variables of the first three checks, right after Conn.init()
InitFirstChecks ==
  /\ connections_checked_in_conn_dns_timer_thread = <<>>
  /\ timers = <<>>
  /\ main = [pc |-> "idle", args |-> NoCall]
  /\ evidence = <<>>
  /\ flows_consumed = 0
  /\ evaluations = [u \in UIDs |-> 0]
  /\ overtaken = {}
  /\ ip_resolved = {}
  /\ resolved_by_other = {}
  /\ well_known_org = {}
  /\ minutes_since_start = 0
  /\ input_type = "pcap"
  /\ reconnections_store = [pt \in ReconnProfileTws |-> EmptyTable]
  /\ rej_seen = [tk \in ReconnTwids \X ReconnKeys |-> <<>>]
  /\ reconn_flows = 0
  /\ p2p_daddrs = EmptyTable
  /\ p2p_hits = [d \in P2PDaddrs |-> 0]
  /\ p2p_last = NoP2PCall
  /\ p2p_calls = 0

InitDevice ==
  /\ InitFirstChecks
  /\ InitUploadVars
  /\ \E ips \in MacBindingChoices : InitDeviceVars(ips)
  /\ InitPortsVars(EmptyTable, EmptyTable)
  /\ InitAnalyzeVars
  /\ InitLocalnetVars(NoLocalNetwork)
  /\ InitCheckVars
  /\ InitTimelineVars
  /\ InitDnsAnalyzerVars

NextDevice ==
  \E flow_type \in FlowTypes, smac \in DeviceMacs, profileid \in DeviceProfiles :
    DeviceFlow(flow_type, smac, profileid, "timewindow1")

SpecDevice == InitDevice /\ [][NextDevice]_vars

(***************************************************************************)
(* Specification of the multi-port check                                   *)
(***************************************************************************)
InitPorts ==
  /\ InitFirstChecks
  /\ InitUploadVars
  /\ InitDeviceVars(<<>>)
  /\ \E dst \in PortsTables, src \in PortsTables : InitPortsVars(dst, src)
  /\ InitAnalyzeVars
  /\ InitLocalnetVars(NoLocalNetwork)
  /\ InitCheckVars
  /\ InitTimelineVars
  /\ InitDnsAnalyzerVars

NextPorts ==
  \E ends \in PortsEndpoints, proto \in PortsProtos, state \in PortsStates,
     appproto \in PortsAppProtos, dport \in PortsDports :
    PortsCall(ends[1], ends[2], proto, state, appproto, dport, OwnProfile,
              "timewindow1")

SpecPorts == InitPorts /\ [][NextPorts]_vars

(***************************************************************************)
(* Specification of Conn.analyze                                           *)
(***************************************************************************)
InitAnalyze == InitConn /\ input_type = "pcap"

NextAnalyze == \E flow \in AnalyzeFlows : Analyze(flow)

SpecAnalyze == InitAnalyze /\ [][NextAnalyze]_vars

(***************************************************************************)
(* Specification of the localnet check                                     *)
(***************************************************************************)
InitLocalnet ==
  /\ InitFirstChecks
  /\ InitUploadVars
  /\ InitDeviceVars(<<>>)
  /\ InitPortsVars(EmptyTable, EmptyTable)
  /\ InitAnalyzeVars
  /\ \E network \in LocalNetworks : InitLocalnetVars(network)
  /\ InitCheckVars
  /\ InitTimelineVars
  /\ InitDnsAnalyzerVars

NextLocalnet ==
  \E saddr \in LocalnetAddrs, daddr \in LocalnetAddrs : LocalnetFlow(saddr, daddr)

SpecLocalnet == InitLocalnet /\ [][NextLocalnet]_vars

(***************************************************************************)
(* Connection to or from port 0 (check_conn_to_port_0)                     *)
(***************************************************************************)
MaxPort0Calls == 2

Port0Sports == {0, 49152}
Port0Dports == {0, 443}
Port0Protos == {"tcp", "udp", "igmp", "icmp", "ICMP", "ipv6-icmp", "arp"}
Port0Addrs == {"192.168.1.2", "8.8.4.4"}

\* line 535: the protocols the check never reports
Port0ProtoIgnored(proto) ==
  Lower(proto) \in {"igmp", "icmp", "ipv6-icmp", "arp"}

\* lines 535-539: TRUE when the call gets past both early returns
Port0Reports(sport, dport, proto) ==
  /\ ~Port0ProtoIgnored(proto)
  /\ ~(sport # 0 /\ dport # 0)

Port0AttackerIsDaddr(sport, saddr, daddr) == daddr

\* line 541
Port0Attacker(sport, saddr, daddr) == IF sport = 0 THEN saddr ELSE daddr

\* line 542
Port0Victim(attacker, saddr, daddr) == IF attacker = daddr THEN saddr ELSE daddr

\* lines 543-554: the arguments of set_evidence.for_port_0_connection
Port0Evidence(sport, dport, saddr, daddr, uid) ==
  LET attacker == Port0Attacker(sport, saddr, daddr) IN
  [type |-> "port_0_connection", saddr |-> saddr, daddr |-> daddr,
   sport |-> sport, dport |-> dport, uid |-> uid,
   victim |-> Port0Victim(attacker, saddr, daddr), attacker |-> attacker]

\* one call of check_conn_to_port_0
check_conn_to_port_0(sport, dport, proto, saddr, daddr) ==
  /\ check_calls < MaxPort0Calls
  /\ check_calls' = check_calls + 1
  /\ check_last' = [check |-> "port_0", sport |-> sport, dport |-> dport,
                    proto |-> proto, saddr |-> saddr, daddr |-> daddr,
                    uid |-> check_calls + 1]
  /\ evidence' =
       IF Port0Reports(sport, dport, proto)
       THEN Append(evidence,
                   Port0Evidence(sport, dport, saddr, daddr, check_calls + 1))
       ELSE evidence
  /\ UNCHANGED <<dnsVarsButEvidence, reconnVars, p2pVars, uploadVars,
                 deviceVars, portsVars, analyzeVars, localnetVars,
                 dnsAnalyzerVars,
                 timelineVars>>

InitPort0 == InitConn /\ input_type = "pcap"

NextPort0 ==
  \E sport \in Port0Sports, dport \in Port0Dports, proto \in Port0Protos,
     saddr \in Port0Addrs, daddr \in Port0Addrs :
    check_conn_to_port_0(sport, dport, proto, saddr, daddr)

SpecPort0 == InitPort0 /\ [][NextPort0]_vars

(***************************************************************************)
(* Unknown destination port (check_unknown_port, port_belongs_to_an_org)   *)
(***************************************************************************)
MaxUnknownPortCalls == 1

UnknownDports == {0, 80, 2021, 5223, 6667, 40000}
UnknownProtos == {"tcp", "udp", "ICMP"}
UnknownDaddrs ==
  {"8.8.4.4", "10.0.0.9", "192.168.1.7", "fd00::2", "192.168.1.2",
   "172.16.0.9"}
UnknownStates == {"Established", "Not Established"}

\* db.get_organization_of_port(portproto), after json.loads: one port that
\* an organization is known to use, with an IP, a range and an empty entry
get_organization_of_port(dport, proto) ==
  IF dport = 5223 /\ proto = "tcp"
  THEN [found |-> TRUE, ip |-> <<"8.8.4.4", "10.0.0.0/8", "">>,
        org_name |-> <<"Apple">>]
  ELSE [found |-> FALSE, ip |-> <<>>, org_name |-> <<>>]

\* ipaddress.ip_network(ip): the network, or the ValueError it raises
ip_network(ip) ==
  CASE ip = "10.0.0.0/8" ->
         [raised |-> "", groups |-> <<10, 0, 0, 0>>, prefixlen |-> 8]
    [] ip = "8.8.4.4" ->
         [raised |-> "", groups |-> <<8, 8, 4, 4>>, prefixlen |-> 32]
    [] OTHER -> [raised |-> "ValueError", groups |-> <<>>, prefixlen |-> 0]

\* str(db.get_mac_vendor_from_profile(f"profile_{ip}"))
get_mac_vendor_from_profile(ip) ==
  IF ip = "192.168.1.7" THEN "Apple, Inc." ELSE "None"

\* db.get_ip_identification(daddr)
get_ip_identification(daddr) ==
  IF daddr = "fd00::2" THEN "SNI: apple.com, " ELSE ""

\* org_name.lower() in text.lower()
OrgNameIn(org_name, text) ==
  org_name = "Apple" /\ text \in {"Apple, Inc.", "SNI: apple.com, "}

\* whitelist.org_analyzer.is_ip_in_org(daddr, org_name)
is_ip_in_org(daddr, org_name) == daddr = "192.168.1.2" /\ org_name = "Apple"

\* lines 105-157, for a flow of the profile of saddr
port_belongs_to_an_org(daddr, dport, proto, saddr) ==
  LET organization_info == get_organization_of_port(dport, proto)
      org_ips == organization_info.ip
  IN /\ organization_info.found
     /\ \/ daddr \in Range(org_ips)
        \/ \E i \in 1..Len(org_ips) :
             /\ ip_network(org_ips[i]).raised = ""
             /\ InIPv4Network(ip_address(daddr), ip_network(org_ips[i]))
        \/ \E i \in 1..Len(organization_info.org_name) :
             LET org_name == organization_info.org_name[i] IN
             \/ OrgNameIn(org_name, get_mac_vendor_from_profile(saddr))
             \/ OrgNameIn(org_name, get_mac_vendor_from_profile(daddr))
             \/ OrgNameIn(org_name, get_ip_identification(daddr))
             \/ is_ip_in_org(daddr, org_name)

\* db.is_ftp_port(dport): a port a FTP session announced for its data
is_ftp_port(dport) == dport = 2021

\* "icmp" in proto
IcmpIn(proto) == proto \in {"icmp", "ipv6-icmp"}

UnknownPortIgnoresDport(dport) == FALSE

\* line 166: not dport
UnknownPortNoDport(dport) == dport = 0

\* lines 166-180: TRUE when the call gets to the condition of line 182
UnknownPortReachesLastTest(dport, proto, daddr, saddr, state) ==
  /\ ~UnknownPortNoDport(dport)
  /\ state = "Established"
  /\ get_port_info(dport, proto) = ""
  /\ ~port_belongs_to_an_org(daddr, dport, proto, saddr)

\* lines 182-186: is_p2p is called only for a protocol without "icmp"
UnknownPortEmits(dport, proto, daddr, saddr, state) ==
  /\ UnknownPortReachesLastTest(dport, proto, daddr, saddr, state)
  /\ ~IcmpIn(proto)
  /\ ~is_p2p(dport, proto, daddr)
  /\ ~is_ftp_port(dport)

\* one call of check_unknown_port by analyze (lines 846-855), which passes
\* proto.lower()
check_unknown_port(dport, flow_proto, daddr, saddr, state) ==
  LET proto == Lower(flow_proto)
      calls_is_p2p ==
        /\ UnknownPortReachesLastTest(dport, proto, daddr, saddr, state)
        /\ ~IcmpIn(proto)
  IN /\ check_calls < MaxUnknownPortCalls
     /\ check_calls' = check_calls + 1
     /\ check_last' = [check |-> "unknown_port", dport |-> dport,
                       proto |-> flow_proto, daddr |-> daddr, state |-> state,
                       saddr |-> saddr,
                       uid |-> check_calls + 1]
     /\ p2p_daddrs' = IF calls_is_p2p
                      THEN P2PDaddrsAfter(dport, proto, daddr)
                      ELSE p2p_daddrs
     /\ evidence' =
          IF UnknownPortEmits(dport, proto, daddr, saddr, state)
          THEN Append(evidence,
                      [type |-> "unknown_port", daddr |-> daddr,
                       dport |-> dport, proto |-> proto,
                       uid |-> check_calls + 1])
          ELSE evidence
     /\ UNCHANGED <<dnsVarsButEvidence, reconnVars, p2p_hits, p2p_last,
                    p2p_calls, uploadVars, deviceVars, portsVars, analyzeVars,
                    localnetVars, dnsAnalyzerVars,
                 timelineVars>>

\* self.p2p_daddrs after UDP flows to four destinations on high ports
FourP2PDaddrs ==
  [d \in {"5.5.5.1", "5.5.5.2", "5.5.5.3", "5.5.5.4"} |-> 1]

\* the analyzer before a flow, with nothing or four destinations in
\* self.p2p_daddrs
InitUnknownPort ==
  /\ InitOtherChecks
  /\ connections_checked_in_conn_dns_timer_thread = <<>>
  /\ timers = <<>>
  /\ main = [pc |-> "idle", args |-> NoCall]
  /\ evidence = <<>>
  /\ flows_consumed = 0
  /\ evaluations = [u \in UIDs |-> 0]
  /\ overtaken = {}
  /\ ip_resolved = {}
  /\ resolved_by_other = {}
  /\ well_known_org = {}
  /\ minutes_since_start = 0
  /\ input_type = "pcap"
  /\ reconnections_store = [pt \in ReconnProfileTws |-> EmptyTable]
  /\ rej_seen = [tk \in ReconnTwids \X ReconnKeys |-> <<>>]
  /\ reconn_flows = 0
  /\ p2p_daddrs \in {EmptyTable, FourP2PDaddrs}
  /\ p2p_hits = [d \in P2PDaddrs |->
                   IF d \in DOMAIN p2p_daddrs THEN p2p_daddrs[d] ELSE 0]
  /\ p2p_last = NoP2PCall
  /\ p2p_calls = 0
  /\ InitDnsAnalyzerVars

NextUnknownPort ==
  \E dport \in UnknownDports, proto \in UnknownProtos,
     daddr \in UnknownDaddrs, state \in UnknownStates :
    check_unknown_port(dport, proto, daddr, "192.168.1.2", state)

SpecUnknownPort == InitUnknownPort /\ [][NextUnknownPort]_vars

(***************************************************************************)
(* Long connection (check_long_connection), with the multicast guard       *)
(***************************************************************************)
MaxLongConnCalls == 3

\* the durations of the flows: a number or a string, below, at and above
\* the threshold; "string" is a string float() does not parse
LongConnDurs ==
  [shape : {"number", "numeric string"},
   value : {10, long_connection_threshold, long_connection_threshold + 1}]
  \cup {[shape |-> "string", value |-> 0]}
LongConnSaddrs == {"192.168.1.2", MulticastDaddr}
LongConnDaddrs == {"8.8.4.4", MulticastDaddr}

\* lines 58-63: the flow is not checked
LongConnectionSkipped(daddr, saddr) == is_multicast(daddr) \/ is_multicast(saddr)

\* one call of check_long_connection: what it returns or raises
LongConnectionOutcome(dur, daddr, saddr) ==
  IF LongConnectionSkipped(daddr, saddr) THEN "None"
  ELSE IF dur.shape = "string" THEN "ValueError"
  ELSE IF check_long_connection(dur) THEN "True"
  ELSE "False"

LongConnectionCall(dur, daddr, saddr) ==
  /\ check_calls < MaxLongConnCalls
  /\ check_calls' = check_calls + 1
  /\ check_last' = [check |-> "long_connection", dur |-> dur, daddr |-> daddr,
                    saddr |-> saddr, uid |-> check_calls + 1,
                    outcome |-> LongConnectionOutcome(dur, daddr, saddr)]
  /\ evidence' =
       IF LongConnectionOutcome(dur, daddr, saddr) = "True"
       THEN Append(evidence,
                   [type |-> "long_connection", daddr |-> daddr,
                    dur |-> dur.value, uid |-> check_calls + 1])
       ELSE evidence
  /\ UNCHANGED <<dnsVarsButEvidence, reconnVars, p2pVars, uploadVars,
                 deviceVars, portsVars, analyzeVars, localnetVars,
                 dnsAnalyzerVars,
                 timelineVars>>

InitLongConn == InitConn /\ input_type = "pcap"

NextLongConn ==
  \E dur \in LongConnDurs, daddr \in LongConnDaddrs, saddr \in LongConnSaddrs :
    LongConnectionCall(dur, daddr, saddr)

SpecLongConn == InitLongConn /\ [][NextLongConn]_vars

(***************************************************************************)
(* The DNS analyzer: DGA by accumulation of NXDOMAIN answers (detect_dga)   *)
(***************************************************************************)
MaxDgaCalls == 3

\* dns.nxdomains_threshold
nxdomains_threshold == 10

DgaRcodes == {"NOERROR", "NXDOMAIN"}
DgaQueries ==
  {"example.com", "example10.com", "1.1.168.192.in-addr.arpa",
   "printer.local", "whitelisted.com"}
DgaTwids == {"timewindow1", "timewindow2"}

\* whitelist.domain_analyzer.is_whitelisted(query, saddr, "alerts")
is_whitelisted(query) == query = "whitelisted.com"

\* query.endswith(".arpa") or query.endswith(".local")
IsArpaOrLocal(query) == query \in {"1.1.168.192.in-addr.arpa", "printer.local"}

DgaSkipsUnlessWhitelisted(rcode_name, query) ==
  rcode_name # "NXDOMAIN" \/ IsArpaOrLocal(query)

\* the queries detect_dga does not count
DgaSkips(rcode_name, query) ==
  rcode_name # "NXDOMAIN" \/ IsArpaOrLocal(query) \/ is_whitelisted(query)

\* the (queries, uids) accumulated for a profile and time window
NxdomainsOf(table, key) ==
  IF key \in DOMAIN table THEN table[key] ELSE <<<<>>, <<>>>>

\* the accumulated (queries, uids) with those of one more query
NxdomainsAppend(table, key, query, uid) ==
  <<Append(NxdomainsOf(table, key)[1], query),
    Append(NxdomainsOf(table, key)[2], uid)>>

\* TRUE when the query brings the number accumulated to the threshold
DgaFires(table, key, query, uid) ==
  Len(NxdomainsAppend(table, key, query, uid)[1]) = nxdomains_threshold

DgaKeepsAfterFiring(table, key, query, uid) ==
  NxdomainsAppend(table, key, query, uid)

\* the entry of the key after a query that is counted
DgaEntryAfter(table, key, query, uid) ==
  IF DgaFires(table, key, query, uid)
  THEN <<<<>>, <<>>>>
  ELSE NxdomainsAppend(table, key, query, uid)

\* one call of detect_dga; the query gets the next uid
detect_dga(rcode_name, query, profileid, twid) ==
  LET key == <<profileid, twid>>
      uid == 100 + dns_calls
      counted == ~DgaSkips(rcode_name, query)
      fires == counted /\ DgaFires(nxdomains, key, query, uid)
  IN /\ dns_calls < MaxDgaCalls
     /\ dns_calls' = dns_calls + 1
     /\ dns_last' = [check |-> "dga", rcode_name |-> rcode_name,
                     query |-> query, key |-> key, uid |-> uid,
                     result |-> fires]
     /\ nxdomains' =
          IF counted
          THEN DictSet(nxdomains, key, DgaEntryAfter(nxdomains, key, query, uid))
          ELSE nxdomains
     /\ evidence' =
          IF fires
          THEN Append(evidence,
                 [type |-> "dga",
                  nxdomains |-> Len(NxdomainsAppend(nxdomains, key, query, uid)[1]),
                  key |-> key,
                  uids |-> NxdomainsAppend(nxdomains, key, query, uid)[2]])
          ELSE evidence
     /\ UNCHANGED <<connButEvidence, timelineVars, dns_arpa_queries, dns_resolutions>>

\* nxdomains of the first time window after eight NXDOMAIN answers
EightNxdomains ==
  [key \in {<<OwnProfile, "timewindow1">>} |->
     <<<<"example1.com", "example2.com", "example3.com", "example4.com",
         "example5.com", "example6.com", "example7.com", "example8.com">>,
       <<1, 2, 3, 4, 5, 6, 7, 8>>>>]

\* the Conn analyzer right after Conn.init(), over an empty store
InitConnIdle == InitFirstChecks /\ InitOtherChecks

\* the DNS analyzer with nothing accumulated, or with eight answers
InitDga ==
  /\ InitConnIdle
  /\ nxdomains \in {EmptyTable, EightNxdomains}
  /\ dns_arpa_queries = <<>>
  /\ dns_resolutions = {}
  /\ dns_last = NoDnsCall
  /\ dns_calls = 0

NextDga ==
  \E rcode_name \in DgaRcodes, query \in DgaQueries, twid \in DgaTwids :
    detect_dga(rcode_name, query, OwnProfile, twid)

SpecDga == InitDga /\ [][NextDga]_vars

(***************************************************************************)
(* The DNS analyzer: ARPA scan (check_dns_arpa_scan)                        *)
(***************************************************************************)
MaxArpaCalls == 3

\* dns.arpa_scan_threshold
arpa_scan_threshold == 10

ArpaDomains == {"1.1.168.192.in-addr.arpa", "example.com"}
\* the timestamps of the queries, in seconds
ArpaTimestamps == 0..3
ArpaTwids == {"timewindow1", "timewindow2"}

\* domain.endswith(".in-addr.arpa")
IsArpa(domain) == domain = "1.1.168.192.in-addr.arpa"

\* the timestamps and uids tracked for a profile and time window
ArpaTracked(table, key) ==
  IF key \in DOMAIN table THEN table[key] ELSE <<<<>>, <<>>>>

\* the tracked timestamps and uids with those of one more query
ArpaAppend(table, key, ts, uid) ==
  <<Append(ArpaTracked(table, key)[1], ts),
    Append(ArpaTracked(table, key)[2], uid)>>

ArpaAnySpan(timestamps) == TRUE

\* the queries fall within a 2-second span
ArpaWithinSpan(timestamps) == timestamps[Len(timestamps)] - timestamps[1] <= 2

\* the query brings the number tracked to the threshold
ArpaReachesThreshold(table, key, ts, uid) ==
  Len(ArpaAppend(table, key, ts, uid)[1]) = arpa_scan_threshold

\* one call of check_dns_arpa_scan; the query gets the next uid and is not
\* older than the queries tracked for its key; the tracking of the key
\* starts again once the threshold is reached
check_dns_arpa_scan(domain, ts, profileid, twid) ==
  LET key == <<profileid, twid>>
      uid == 100 + dns_calls
      tracked == ArpaTracked(dns_arpa_queries, key)[1]
      after == ArpaAppend(dns_arpa_queries, key, ts, uid)
      reached == IsArpa(domain)
                 /\ ArpaReachesThreshold(dns_arpa_queries, key, ts, uid)
      scan == reached /\ ArpaWithinSpan(after[1])
  IN /\ dns_calls < MaxArpaCalls
     /\ IF tracked = <<>> THEN TRUE ELSE ts >= tracked[Len(tracked)]
     /\ dns_calls' = dns_calls + 1
     /\ dns_last' = [check |-> "arpa_scan", domain |-> domain, ts |-> ts,
                     key |-> key, uid |-> uid, result |-> scan]
     /\ dns_arpa_queries' =
          IF ~IsArpa(domain) THEN dns_arpa_queries
          ELSE IF reached THEN DictSet(dns_arpa_queries, key, <<<<>>, <<>>>>)
          ELSE DictSet(dns_arpa_queries, key, after)
     /\ evidence' =
          IF scan
          THEN Append(evidence,
                      [type |-> "dns_arpa_scan", key |-> key,
                       queries |-> Len(after[1]), uids |-> after[2]])
          ELSE evidence
     /\ UNCHANGED <<connButEvidence, timelineVars, nxdomains, dns_resolutions>>

\* the tracking of the first time window after eight ARPA queries in the
\* same second
EightArpaQueries ==
  [key \in {<<OwnProfile, "timewindow1">>} |->
     <<<<0, 0, 0, 0, 0, 0, 0, 0>>, <<1, 2, 3, 4, 5, 6, 7, 8>>>>]

InitArpa ==
  /\ InitConnIdle
  /\ nxdomains = <<>>
  /\ dns_arpa_queries \in {EmptyTable, EightArpaQueries}
  /\ dns_resolutions = {}
  /\ dns_last = NoDnsCall
  /\ dns_calls = 0

NextArpa ==
  \E domain \in ArpaDomains, ts \in ArpaTimestamps, twid \in ArpaTwids :
    check_dns_arpa_scan(domain, ts, OwnProfile, twid)

SpecArpa == InitArpa /\ [][NextArpa]_vars

(***************************************************************************)
(* The DNS analyzer: invalid answers (check_invalid_dns_answers)            *)
(***************************************************************************)
MaxInvalidAnswerCalls == 2

InvalidAnswerDomains == {"example.com", "localhost"}
DnsAnswers == {"127.0.0.1", "0.0.0.0", "8.8.8.8"}
DnsAnswerLists ==
  {<<a>> : a \in DnsAnswers} \cup {<<a, b>> : a \in DnsAnswers, b \in DnsAnswers}

\* the loopback and invalid addresses
invalid_answers == {"127.0.0.1", "0.0.0.0"}

AnswerReportedForAnyDomain(domain, answer) == answer \in invalid_answers

\* the answer is evidence-worthy
AnswerReported(domain, answer) ==
  answer \in invalid_answers /\ domain # "localhost"

\* the answers of the list that are reported, in order
ReportedAnswers(domain, answers) ==
  SelectSeq(answers, LAMBDA a : AnswerReported(domain, a))

\* db.delete_dns_resolution(answer), for each of the answers
delete_dns_resolution(cache, answers) == cache \ Range(answers)

\* one call of check_invalid_dns_answers; the query gets the next uid
check_invalid_dns_answers(domain, answers) ==
  LET uid == 100 + dns_calls
      reported == ReportedAnswers(domain, answers)
  IN /\ dns_calls < MaxInvalidAnswerCalls
     /\ dns_calls' = dns_calls + 1
     /\ dns_last' = [check |-> "invalid_dns_answers", domain |-> domain,
                     answers |-> answers, uid |-> uid]
     /\ evidence' =
          evidence \o [i \in 1..Len(reported) |->
                         [type |-> "invalid_dns_answer", domain |-> domain,
                          answer |-> reported[i], uid |-> uid]]
     /\ dns_resolutions' = delete_dns_resolution(dns_resolutions, reported)
     /\ UNCHANGED <<connButEvidence, timelineVars, nxdomains, dns_arpa_queries>>

\* the store holds the resolutions of any of the answers
InitInvalidAnswers ==
  /\ InitConnIdle
  /\ nxdomains = <<>>
  /\ dns_arpa_queries = <<>>
  /\ dns_resolutions \in SUBSET DnsAnswers
  /\ dns_last = NoDnsCall
  /\ dns_calls = 0

NextInvalidAnswers ==
  \E domain \in InvalidAnswerDomains, answers \in DnsAnswerLists :
    check_invalid_dns_answers(domain, answers)

SpecInvalidAnswers == InitInvalidAnswers /\ [][NextInvalidAnswers]_vars

(***************************************************************************)
(* The DNS analyzer: high-entropy TXT answers                               *)
(* (check_high_entropy_dns_answers)                                         *)
(***************************************************************************)
MaxEntropyCalls == 2

\* dns.shannon_entropy_threshold (4.0), in tenths of a bit
shannon_entropy_threshold == 40

EntropyAnswers ==
  {"A 1.2.3.4", "TXT aaaa", "TXT v=spf1 include:_spf.example.com",
   "TXT abcdefghijklmnopqrstuvwxyz1234567890"}
EntropyAnswerLists ==
  {<<a>> : a \in EntropyAnswers}
    \cup {<<a, b>> : a \in EntropyAnswers, b \in EntropyAnswers}

\* "TXT" in answer
IsTxt(answer) == answer # "A 1.2.3.4"

\* dns.estimate_shannon_entropy(answer), in tenths of a bit: an answer
\* below, one at and one above the threshold
estimate_shannon_entropy(answer) ==
  CASE answer = "TXT aaaa" -> 20
    [] answer = "TXT v=spf1 include:_spf.example.com" -> 40
    [] answer = "TXT abcdefghijklmnopqrstuvwxyz1234567890" -> 45
    [] OTHER -> 30

EntropyAboveThreshold(entropy) == entropy > shannon_entropy_threshold

\* entropy >= self.shannon_entropy_threshold
EntropyReachesThreshold(entropy) == entropy >= shannon_entropy_threshold

\* the answers the estimator is invoked on, in order
EstimatedAnswers(answers) == SelectSeq(answers, IsTxt)

\* the answers reported, in order
SuspiciousAnswers(answers) ==
  SelectSeq(EstimatedAnswers(answers),
            LAMBDA a : EntropyReachesThreshold(estimate_shannon_entropy(a)))

\* one call of check_high_entropy_dns_answers; the query gets the next uid
check_high_entropy_dns_answers(answers) ==
  LET uid == 100 + dns_calls
      suspicious == SuspiciousAnswers(answers)
  IN /\ dns_calls < MaxEntropyCalls
     /\ dns_calls' = dns_calls + 1
     /\ dns_last' = [check |-> "high_entropy_dns_answers", answers |-> answers,
                     uid |-> uid, estimated |-> EstimatedAnswers(answers)]
     /\ evidence' =
          evidence \o [i \in 1..Len(suspicious) |->
                         [type |-> "suspicious_dns_answer",
                          answer |-> suspicious[i],
                          entropy |-> estimate_shannon_entropy(suspicious[i]),
                          uid |-> uid]]
     /\ UNCHANGED <<connButEvidence, timelineVars, nxdomains, dns_arpa_queries,
                    dns_resolutions>>

\* DNS.init()
InitEntropy == InitConnIdle /\ InitDnsAnalyzerVars

NextEntropy ==
  \E answers \in EntropyAnswerLists : check_high_entropy_dns_answers(answers)

SpecEntropy == InitEntropy /\ [][NextEntropy]_vars

(***************************************************************************)
(* The DNS analyzer: the lookups that return a verdict                     *)
(* (is_connection_made_by_different_version, is_dns_server)                 *)
(***************************************************************************)
MaxLookupCalls == 2

\* db.get_the_other_ip_version(profileid): none, or the other address
OtherIpVersions == {<<>>, <<"192.168.1.2">>, <<"fd00::2">>}
\* db.get_all_contacted_ips_in_profileid_twid(profile of the other address)
ContactedIpLists ==
  {<<>>, <<"1.1.1.1">>, <<"8.8.8.8">>, <<"9.9.9.9">>, <<"1.1.1.1", "8.8.8.8">>,
   <<"1.1.1.1", "9.9.9.9">>, <<"8.8.8.8", "9.9.9.9">>,
   <<"1.1.1.1", "8.8.8.8", "9.9.9.9">>}
DifferentVersionDaddrs == {"8.8.8.8", "9.9.9.9", "8.8.4.4"}
ProbedIps == Daddrs \cup {"192.168.1.100"}

NoMatchIsFalse == "False"

\* what the function returns when both sides have data and share no IP
NoMatchOutcome == "None"

\* is_connection_made_by_different_version(profileid, twid, daddr) over a
\* store that returns other_ip and contacted_ips
is_connection_made_by_different_version(other_ip, contacted_ips, daddr) ==
  IF other_ip = <<>> THEN "False"
  ELSE IF contacted_ips = <<>> THEN "False"
  ELSE IF daddr \in Range(contacted_ips) THEN "True"
  ELSE NoMatchOutcome

DifferentVersionCall(other_ip, contacted_ips, daddr) ==
  /\ dns_calls < MaxLookupCalls
  /\ dns_calls' = dns_calls + 1
  /\ dns_last' = [check |-> "different_version", other_ip |-> other_ip,
                  contacted_ips |-> contacted_ips, daddr |-> daddr,
                  result |-> is_connection_made_by_different_version(
                               other_ip, contacted_ips, daddr)]
  /\ UNCHANGED <<connButEvidence, timelineVars, evidence, nxdomains, dns_arpa_queries,
                 dns_resolutions>>

\* one call of is_dns_server
DnsServerProbe(ip) ==
  /\ dns_calls < MaxLookupCalls
  /\ dns_calls' = dns_calls + 1
  /\ dns_last' = [check |-> "is_dns_server", ip |-> ip,
                  probe |-> dns_query_udp(ip),
                  returned |-> IsDnsServerOutcome(ip).returned,
                  raised |-> IsDnsServerOutcome(ip).raised]
  /\ UNCHANGED <<connButEvidence, timelineVars, evidence, nxdomains, dns_arpa_queries,
                 dns_resolutions>>

InitLookups == InitConnIdle /\ InitDnsAnalyzerVars

NextLookups ==
  \/ \E other_ip \in OtherIpVersions, contacted_ips \in ContactedIpLists,
        daddr \in DifferentVersionDaddrs :
       DifferentVersionCall(other_ip, contacted_ips, daddr)
  \/ \E ip \in ProbedIps : DnsServerProbe(ip)

SpecLookups == InitLookups /\ [][NextLookups]_vars

(***************************************************************************)
(* Specification of the dispatch of Conn.analyze: new_flow and tw_closed    *)
(* messages over a store that holds nothing or one large upload             *)
(***************************************************************************)
StoredUpload ==
  <<[uid |-> 1, profileid |-> OwnProfile, twid |-> "timewindow1",
     daddr |-> PlainDaddr, sbytes |-> data_exfiltration_threshold * BytesPerMb,
     starttime |-> 1]>>

InitDispatch ==
  /\ InitFirstChecks
  /\ flows_store \in {<<>>, StoredUpload}
  /\ tw_closed_count = 0
  /\ InitDeviceVars(<<>>)
  /\ InitPortsVars(EmptyTable, EmptyTable)
  /\ InitAnalyzeVars
  /\ InitLocalnetVars(NoLocalNetwork)
  /\ InitCheckVars
  /\ InitTimelineVars
  /\ InitDnsAnalyzerVars

\* lines 818 and 940: the two kinds of message analyze handles
NextDispatch ==
  \/ \E flow \in AnalyzeFlows : Analyze(flow)
  \/ \E profileid \in Profiles, twid \in UploadTwids : TwClosed(profileid, twid)

SpecDispatch == InitDispatch /\ [][NextDispatch]_vars

(***************************************************************************)
(* Specification of the connection-without-DNS check from a state with a   *)
(* timer pending for a uid that has left the list                           *)
(***************************************************************************)
\* a conn flow of uid u1 to the unresolved destination
PendingCall ==
  [flow_type |-> "conn", appproto |-> "http", daddr |-> PlainDaddr,
   twid |-> "timewindow1", profileid |-> OwnProfile,
   timestamp |-> "1700000000.0", uid |-> "u1"]

\* the analyzer after two flow events of uid u1: the first found u1 absent,
\* appended it and started its timer (lines 470-493); the second found u1 in
\* the list, emitted on the main path and removed it (lines 494-517) before
\* the timer fired. The list is empty and the timer of the first is still
\* waiting. flows_consumed, which only bounds the exploration, counts the
\* messages consumed from this state on; evaluations keeps the two
\* evaluations of u1 made so far.
InitConnDnsPending ==
  /\ InitOtherChecks
  /\ InitDnsAnalyzerVars
  /\ connections_checked_in_conn_dns_timer_thread = <<>>
  /\ timers = <<TimerThread(TimerDelay, Params(PendingCall), PendingCall)>>
  /\ main = [pc |-> "idle", args |-> NoCall]
  /\ evidence = <<[type |-> "conn_without_dns", daddr |-> PendingCall.daddr,
                   timestamp |-> PendingCall.timestamp,
                   profileid |-> PendingCall.profileid,
                   twid |-> PendingCall.twid, uid |-> "u1", path |-> 0]>>
  /\ flows_consumed = 0
  /\ evaluations = [u \in UIDs |-> IF u = "u1" THEN 2 ELSE 0]
  /\ overtaken = {1}
  /\ ip_resolved = {}
  /\ resolved_by_other = {}
  /\ well_known_org = {}
  /\ input_type = "pcap"
  /\ minutes_since_start = 0
  /\ reconnections_store = [pt \in ReconnProfileTws |-> EmptyTable]
  /\ rej_seen = [tk \in ReconnTwids \X ReconnKeys |-> <<>>]
  /\ reconn_flows = 0
  /\ p2p_daddrs = EmptyTable
  /\ p2p_hits = [d \in P2PDaddrs |-> 0]
  /\ p2p_last = NoP2PCall
  /\ p2p_calls = 0

\* the main path, the timer threads and the arrival of a DNS resolution;
\* the other changes of the store are left out of this specification
NextConnDnsPending ==
  \/ \E c \in Calls : NewFlow(c)
  \/ \E t \in 1..Len(timers) : TimerFire(t)
  \/ \E p \in Paths : Member(p)
  \/ \E p \in Paths : AppendAndStartTimer(p)
  \/ \E p \in Paths : RecheckAndEmit(p)
  \/ \E p \in Paths : Remove(p)
  \/ DnsResolutionCached

SpecConnDnsPending == InitConnDnsPending /\ [][NextConnDnsPending]_vars

(***************************************************************************)
(* The Timeline module (modules/timeline/timeline.py)                      *)
(***************************************************************************)
MaxTimelineMsgs == 2

\* the values a flow may carry as sbytes and allbytes: ints, and values of
\* other types (a string, a float, None), whose value is not used
TimelineBytes ==
  {[type |-> "int", value |-> 0], [type |-> "int", value |-> 100],
   [type |-> "int", value |-> 300], [type |-> "str", value |-> 0],
   [type |-> "NoneType", value |-> 0]}

\* a TCP flow that has every field, with no alternative flow in the store.
\* payload is what the message holds under the uid (JSON, something else, or
\* no uid at all), missing the keys the flow lacks, altflow what
\* db.get_altflow_from_uid returns, store the call of the store that fails
GoodTimelineFlow ==
  [payload |-> "json", missing |-> {}, proto |-> "tcp", appproto |-> "http",
   dur |-> "0.5", sbytes |-> [type |-> "int", value |-> 100],
   allbytes |-> [type |-> "int", value |-> 300], altflow |-> "none",
   store |-> "ok"]

\* the flows of the new_flow messages
TimelineFlows ==
  {[GoodTimelineFlow EXCEPT !.sbytes = s, !.allbytes = a] :
     s \in TimelineBytes, a \in TimelineBytes}
  \cup {[GoodTimelineFlow EXCEPT !.proto = p] :
          p \in {"udp", "icmp", "igmp", "arp"}}
  \cup {[GoodTimelineFlow EXCEPT !.proto = p, !.missing = {k}] :
          p \in {"tcp", "icmp", "arp"}, k \in {"proto", "dur", "state", "allbytes"}}
  \cup {[GoodTimelineFlow EXCEPT !.appproto = "", !.missing = {"dport"},
                                 !.proto = "arp"]}
  \cup {[GoodTimelineFlow EXCEPT !.dur = "abc", !.proto = p] :
          p \in {"tcp", "igmp", "arp"}}
  \cup {[GoodTimelineFlow EXCEPT !.payload = p] : p \in {"not json", "no uid"}}
  \cup {[GoodTimelineFlow EXCEPT !.altflow = a] :
          a \in {"dns", "no type_", "unknown type"}}
  \cup {[GoodTimelineFlow EXCEPT !.store = s] :
          s \in {"get_dns_resolution", "add_timeline_line"}}

\* Timeline.validate_bytes
validate_bytes(bytes) == IF bytes.type # "int" THEN 0 ELSE bytes.value

\* str.upper() on the protocols of the flows
TimelineUpper(proto) ==
  CASE proto = "tcp" -> "TCP"
    [] proto = "udp" -> "UDP"
    [] proto = "icmp" -> "ICMP"
    [] proto = "igmp" -> "IGMP"
    [] proto = "arp" -> "ARP"
    [] OTHER -> proto

\* float(flow["dur"]) returns
TimelineDurParses(dur) == dur = "0.5"

\* what a handler raises while it reads the flow: the keys it reads before
\* dur, then dur, then the keys it reads after
HandlerRaises(flow, before_dur, after_dur) ==
  CASE flow.missing \cap before_dur # {} -> "KeyError"
    [] OTHER ->
       IF "dur" \in flow.missing THEN "KeyError"
       ELSE IF ~TimelineDurParses(flow.dur) THEN "ValueError"
       ELSE IF flow.missing \cap after_dur # {} THEN "KeyError"
       ELSE ""

\* the activity process_tcp_udp_flow returns (the fields of the byte
\* accounting and the warning computed from them)
process_tcp_udp_flow(flow) ==
  LET sbytes == validate_bytes(flow.sbytes)
      allbytes == validate_bytes(flow.allbytes)
  IN [kind |-> "tcp_udp", proto |-> TimelineUpper(flow.proto),
      warning |-> IF allbytes = 0 THEN "No data exchange!" ELSE "",
      sent |-> sbytes, recv |-> allbytes - sbytes, tot |-> allbytes]

\* the activity process_icmp_flow and process_igmp_flow return: the size,
\* and no byte accounting
process_other_flow(flow) ==
  [kind |-> "icmp_igmp", proto |-> TimelineUpper(flow.proto),
   size |-> validate_bytes(flow.allbytes)]

\* lines 309-320: the handler of the protocol, "" when it has none
proto_handlers(proto) ==
  CASE proto \in {"TCP", "UDP"} -> "process_tcp_udp_flow"
    [] proto \in {"ICMP", "IPV6-ICMP", "IPV4-ICMP"} -> "process_icmp_flow"
    [] proto = "IGMP" -> "process_igmp_flow"
    [] OTHER -> ""

\* the first exception a step of the try block of process_flow raises for
\* the flow, "" when none does
ProcessFlowRaises(flow) ==
  LET handler == proto_handlers(TimelineUpper(flow.proto))
      from_handler ==
        CASE handler = "process_tcp_udp_flow" ->
               LET read == HandlerRaises(flow, {},
                             {"daddr", "state", "ts", "dport", "proto",
                              "sbytes", "allbytes"})
               IN IF read # "" THEN read
                  ELSE IF flow.store = "get_dns_resolution"
                       THEN "ConnectionError" ELSE ""
          [] handler = "process_icmp_flow" ->
               HandlerRaises(flow, {"sport", "dport", "ts", "saddr", "daddr"},
                             {"allbytes"})
          [] handler = "process_igmp_flow" ->
               HandlerRaises(flow, {"ts"}, {"daddr", "allbytes"})
          [] OTHER -> ""
  IN CASE flow.payload = "no uid" -> "StopIteration"
       [] flow.payload = "not json" -> "JSONDecodeError"
       [] "proto" \in flow.missing -> "KeyError"
       [] flow.appproto \in {"", "failed"} /\ "dport" \in flow.missing ->
            "KeyError"
       [] from_handler # "" -> from_handler
       [] flow.altflow = "no type_" -> "KeyError"
       [] flow.store = "add_timeline_line" -> "ConnectionError"
       [] OTHER -> ""

\* process_altflow: the info of the alternative flow; a type without a
\* handler leaves it empty (the KeyError caught at line 140)
process_altflow(flow) ==
  IF flow.altflow = "dns" THEN "dns" ELSE ""

\* lines 317-331: the line handed to db.add_timeline_line
TimelineLine(flow, uid) ==
  LET handler == proto_handlers(TimelineUpper(flow.proto))
  IN [uid |-> uid, info |-> process_altflow(flow),
      activity |->
        IF handler = "process_tcp_udp_flow" THEN process_tcp_udp_flow(flow)
        ELSE IF handler = "" THEN [kind |-> "none"]
        ELSE process_other_flow(flow)]

ProcessFlowCatchesKeyError(exception) == exception = "KeyError"

\* line 333, except Exception: every exception a step raises is a subclass
\* of Exception
ProcessFlowCatches(exception) ==
  exception \in {"KeyError", "ValueError", "StopIteration", "JSONDecodeError",
                 "ConnectionError"}

\* Timeline.main consumes a well-formed new_flow message and calls
\* process_flow. An exception that leaves process_flow leaves main, and the
\* module consumes no further message.
TimelineMain(flow) ==
  LET raised == ProcessFlowRaises(flow)
      added == IF raised = ""
               THEN <<TimelineLine(flow, timeline_msgs + 1)>> ELSE <<>>
  IN /\ timeline_msgs < MaxTimelineMsgs
     /\ ~timeline_last.propagated
     /\ timeline_msgs' = timeline_msgs + 1
     /\ timeline_lines' = timeline_lines \o added
     /\ timeline_last' = [raised |-> raised,
                          propagated |-> raised # "" /\ ~ProcessFlowCatches(raised),
                          added |-> Len(added)]
     /\ UNCHANGED <<dnsVars, notDnsNorTimelineVars>>

InitTimeline == InitConnIdle /\ InitDnsAnalyzerVars

NextTimeline == \E flow \in TimelineFlows : TimelineMain(flow)

SpecTimeline == InitTimeline /\ [][NextTimeline]_vars

(***************************************************************************)
(* Claims                                                                  *)
(***************************************************************************)
ConnDnsEvidenceOf(uid) ==
  {i \in 1..Len(evidence) :
     evidence[i].type = "conn_without_dns" /\ evidence[i].uid = uid}

ReconnEvidenceOf(twid, key) ==
  SelectSeq(evidence, LAMBDA e : e.twid = twid /\ e.key = key)

\* C1: for the REJ flows of one key in one profile and time window, each
\* handled by its own call reading the table from the store: fewer than 5
\* flows raise no evidence, and from the 5th flow up to the 9th there is
\* exactly one evidence, carrying the uids of the first 5 flows (the 6th
\* flow starts a new count and raises nothing).
C1_ReconnectionStorm ==
  \A twid \in ReconnTwids, key \in ReconnKeys :
    LET seen == rej_seen[<<twid, key>>]
        ev == ReconnEvidenceOf(twid, key)
    IN /\ Len(seen) < ReconnectionThreshold => ev = <<>>
       /\ (Len(seen) >= ReconnectionThreshold /\ Len(seen) < 2 * ReconnectionThreshold)
            => /\ Len(ev) = 1
               /\ ev[1].uids = SubSeq(seen, 1, ReconnectionThreshold)

\* C2: at most one deferred re-check is ever started for a uid, and a uid
\* is evaluated at most twice (the original evaluation and one re-check).
C2_SingleShotDeferral ==
  \A u \in UIDs :
    /\ Cardinality({t \in 1..Len(timers) : timers[t].by.uid = u}) <= 1
    /\ evaluations[u] <= 2

\* C3: connection-without-DNS evidence is emitted at most once per uid, and
\* no two paths are at once past the list test having both found the same
\* uid in the list.
C3_EvidenceAtMostOncePerUid ==
  /\ \A u \in UIDs : Cardinality(ConnDnsEvidenceOf(u)) <= 1
  /\ \A p, q \in Paths :
       (/\ p # q
        /\ Path(p).pc \in {"recheck", "remove"}
        /\ Path(q).pc \in {"recheck", "remove"})
       => Path(p).args.uid # Path(q).args.uid

\* C4: when the deferred re-check of a uid returns, however it ended, the
\* uid is not in connections_checked_in_conn_dns_timer_thread.
C4_RecheckLeavesUidOutOfList ==
  [][\A t \in 1..Len(timers) :
       (timers[t].pc # "done" /\ timers'[t].pc = "done")
       => timers[t].args.uid \notin
            Range(connections_checked_in_conn_dns_timer_thread')]_vars

\* C5: a uid whose deferred re-check found the destination resolved (a
\* cached resolution, the other IP version, or a well-known organization)
\* has no connection-without-DNS evidence, at any time.
C5_IdempotentExemption ==
  \A t \in 1..Len(timers) :
    timers[t].outcome \in {"returned_early", "exempted"}
    => ConnDnsEvidenceOf(timers[t].args.uid) = {}

\* C6: connection-without-DNS evidence is emitted by timer threads only,
\* never by the main path.
C6_EvidenceOnlyFromRecheck ==
  \A i \in 1..Len(evidence) :
    evidence[i].type = "conn_without_dns" => evidence[i].path # 0

\* C7: every timer thread runs the check exactly once, with the seven
\* arguments of the call that started it: it never runs twice, it runs with
\* those arguments, and under fair scheduling it eventually runs.
C7_TimerSafety ==
  \A t \in 1..Len(timers) :
    /\ timers[t].runs <= 1
    /\ timers[t].args = timers[t].by
    /\ timers[t].delay = TimerDelay
    /\ timers[t].runs = 0 <=> timers[t].pc = "waiting"
    /\ t \in TimerIds

C7_DeferredTimerContract ==
  /\ []C7_TimerSafety
  /\ \A t \in TimerIds :
       (t <= Len(timers)) ~> (t <= Len(timers) /\ timers[t].runs = 1)

\* a timer thread ran its re-check with the arguments of its starter, after
\* the main path had consumed a further flow
C7_Witness ==
  \E t \in 1..Len(timers) :
    /\ timers[t].runs = 1
    /\ timers[t].pc = "done"
    /\ timers[t].args = timers[t].by
    /\ t \in overtaken

\* the skip conditions as the claim lists them
C8_Skips(c) ==
  \/ c.flow_type # "conn"
  \/ c.appproto = "dns"
  \/ c.appproto = "icmp"
  \/ c.daddr = IgnoredDaddr
  \/ c.daddr = ClientDaddr
  \/ c.daddr = DoHDaddr
  \/ c.daddr = DnsServerDaddr
  \/ input_type = "zeek_log_file"
  \/ c.daddr \in ip_resolved

\* the main path consumes a flow and calls the check in this step
MainCalls == flows_consumed' = flows_consumed + 1

\* timer thread t ends its wait and calls the check in this step
TimerCalls(t) == timers[t].pc = "waiting" /\ timers'[t].pc # "waiting"

\* the step leaves the list, the timers and the evidence as they were
NoEffect ==
  /\ connections_checked_in_conn_dns_timer_thread' =
       connections_checked_in_conn_dns_timer_thread
  /\ Len(timers') = Len(timers)
  /\ evidence' = evidence
  /\ evaluations' = evaluations

\* C8: a call of the check under one of the skip conditions, on the main
\* path or on a timer thread, returns at once: the list is unchanged, no
\* timer is started and no evidence is emitted. Stated on the step that
\* makes the call: it has no effect, and a call that has not returned by
\* the end of it holds arguments that meet none of the skip conditions.
C8_SkipConditions ==
  [][/\ MainCalls =>
          /\ NoEffect
          /\ main'.pc # "idle" => ~C8_Skips(main'.args)
     /\ \A t \in 1..Len(timers) :
          TimerCalls(t) =>
            /\ NoEffect
            /\ timers'[t].pc # "done" => ~C8_Skips(timers[t].args)]_vars

\* two flows were consumed: one was skipped before the list was read, the
\* other started a timer whose re-check was skipped too
C8_Witness ==
  /\ flows_consumed = 2
  /\ main.pc = "idle"
  /\ evaluations["u1"] + evaluations["u2"] = 1
  /\ Len(timers) = 1
  /\ timers[1].outcome = "returned_early"
  /\ evidence = <<>>

\* the claim's condition: live capture, and the warm-up period not over or
\* the source address not one of the device's own
C9_WarmingUp(c) ==
  /\ input_type = "interface"
  /\ \/ minutes_since_start < conn_without_dns_interface_wait_time
     \/ c.profileid[2] \notin our_ips

\* C9: in live capture, a call of the check during the warm-up period or
\* for a source address that is not the device's own returns at once, on
\* the main path and on a timer thread: nothing is added to the list, no
\* timer is started and no evidence is emitted. Stated as C8 is.
C9_LiveCaptureWarmUp ==
  [][/\ MainCalls =>
          /\ NoEffect
          /\ main'.pc # "idle" => ~C9_WarmingUp(main'.args)
     /\ \A t \in 1..Len(timers) :
          TimerCalls(t) =>
            /\ NoEffect
            /\ timers'[t].pc # "done" => ~C9_WarmingUp(timers[t].args)]_vars

\* live capture: flows were consumed during the warm-up period and after it,
\* and only the one of the device's own address after it started a timer
C9_Witness ==
  /\ input_type = "interface"
  /\ minutes_since_start >= conn_without_dns_interface_wait_time
  /\ flows_consumed = 2
  /\ main.pc = "idle"
  /\ Len(timers) = 1
  /\ evaluations["u1"] = 1
  /\ evaluations["u2"] = 0

\* C10: a UDP connection with dport > 30000 is flagged exactly when,
\* counting this connection, its destination has 6 hits or more, or 5 or
\* more distinct destinations have been seen.
C10_P2PThresholds ==
  IsHighPortUdp(p2p_last.dport, p2p_last.proto)
  => (p2p_last.result <=>
        \/ p2p_hits[p2p_last.daddr] >= P2PDaddrHits
        \/ Cardinality({d \in P2PDaddrs : p2p_hits[d] > 0}) >= P2PDistinctDaddrs)

\* C11: the P2P counter is edge-triggered: a call of is_p2p that flags the
\* connection leaves self.p2p_daddrs empty, a call that leaves a
\* destination at 6 hits or the counter at 5 destinations has flagged the
\* connection, and only UDP connections with dport > 30000 are flagged.
C11_P2PEdgeTriggered ==
  /\ p2p_last.result => p2p_daddrs = EmptyTable
  /\ p2p_last.result => IsHighPortUdp(p2p_last.dport, p2p_last.proto)
  /\ (p2p_calls > 0 /\ ~p2p_last.result) =>
       /\ \A d \in DOMAIN p2p_daddrs : p2p_daddrs[d] < P2PDaddrHits
       /\ Cardinality(DOMAIN p2p_daddrs) < P2PDistinctDaddrs

\* the number of REJ flows handled so far, over the (twid, key) pairs of S
RECURSIVE RejHandled(_)
RejHandled(S) ==
  IF S = {} THEN 0
  ELSE LET tk == CHOOSE x \in S : TRUE
       IN Len(rej_seen[tk]) + RejHandled(S \ {tk})

\* C12: a call of check_multiple_reconnection_attempts that emits
\* reconnection evidence for a key leaves <<0, <<>>>> stored for that key
\* and every other entry of every table of the store as it was; a flow
\* whose origstate is not REJ changes no entry and emits nothing.
C12_ReconnResetAndFrame ==
  [][/\ evidence' # evidence =>
          LET e == evidence'[Len(evidence')]
              pt == <<e.profileid, e.twid>>
          IN /\ e.type = "multiple_reconnection_attempts"
             /\ DOMAIN reconnections_store'[pt] =
                  DOMAIN reconnections_store[pt] \cup {e.key}
             /\ reconnections_store'[pt][e.key] = <<0, <<>>>>
             /\ \A k \in DOMAIN reconnections_store[pt] \ {e.key} :
                  reconnections_store'[pt][k] = reconnections_store[pt][k]
             /\ \A q \in ReconnProfileTws \ {pt} :
                  reconnections_store'[q] = reconnections_store[q]
     /\ (reconn_flows' # reconn_flows /\ rej_seen' = rej_seen) =>
          /\ reconnections_store' = reconnections_store
          /\ evidence' = evidence]_vars

\* evidence fired for one key, whose entry is reset, while the entry of
\* the other key of the same table still holds its attempts; and a flow
\* that was not REJ has been handled as well
C12_Witness ==
  \E i \in 1..Len(evidence) :
    LET e == evidence[i]
        pt == <<e.profileid, e.twid>>
    IN /\ e.type = "multiple_reconnection_attempts"
       /\ reconnections_store[pt][e.key] = <<0, <<>>>>
       /\ \E k \in DOMAIN reconnections_store[pt] \ {e.key} :
            reconnections_store[pt][k] = StoredEntry
       /\ reconn_flows > RejHandled(ReconnTwids \X ReconnKeys)

\* the data-exfiltration evidence emitted so far, as indices of evidence
ExfiltrationEvidence ==
  {i \in 1..Len(evidence) : evidence[i].type = "data_exfiltration"}

\* the flows the store holds for a profile and time window to a destination
FlowsOfTw(profileid, twid, daddr) ==
  SelectSeq(flows_store,
            LAMBDA f : f.profileid = profileid /\ f.twid = twid /\ f.daddr = daddr)

RECURSIVE SumSbytes(_)
SumSbytes(flows) ==
  IF flows = <<>> THEN 0 ELSE Head(flows).sbytes + SumSbytes(Tail(flows))

\* C13: the evidence of a tw_closed message for (profile, timewindow)
\* carries only uids of flows of that profile and time window, and no more
\* bytes than those flows sent to the destination.
C13_UploadOfClosingTwOnly ==
  \A i \in ExfiltrationEvidence :
    LET e == evidence[i]
        of_tw == FlowsOfTw(e.profileid, e.twid, e.daddr)
    IN e.by = "detect_data_upload_in_twid" =>
         /\ Range(e.uids) \subseteq {of_tw[k].uid : k \in 1..Len(of_tw)}
         /\ e.mbs[1] * BytesPerMb + e.mbs[2] <= SumSbytes(of_tw)

\* C14: no two data-exfiltration evidence entries, of the per-flow check or
\* of the window-close check, have the same destination and the same uid set.
C14_ExfiltrationOncePerUidSet ==
  \A i, j \in ExfiltrationEvidence :
    (i < j /\ evidence[i].daddr = evidence[j].daddr)
      => Range(evidence[i].uids) # Range(evidence[j].uids)

\* what C15 expects of a flow: a destination that is not empty and not the
\* gateway, multicast, link-local or reserved, and at least 100 MB sent
C15_Expected(f) ==
  /\ f.daddr \notin {"", gateway, MulticastDaddr, LinkLocalDaddr, ReservedDaddr}
  /\ f.sbytes # 0
  /\ f.sbytes >= flow_upload_threshold * BytesPerMb

\* C15: check_data_upload emits for a flow, once and with the uid list
\* <<uid>> and the flow's destination, exactly when the destination is not
\* empty and not ignored, sbytes is not 0 and sbytes is 100 MB or more.
C15_UploadPerFlow ==
  /\ \A i \in ExfiltrationEvidence : Len(evidence[i].uids) = 1
  /\ \A k \in 1..Len(flows_store) :
       LET f == flows_store[k]
           ev == {i \in ExfiltrationEvidence : evidence[i].uids = <<f.uid>>}
       IN IF C15_Expected(f)
          THEN /\ Cardinality(ev) = 1
               /\ \A i \in ev : /\ evidence[i].daddr = f.daddr
                                /\ evidence[i].by = "check_data_upload"
          ELSE ev = {}

\* a flow of exactly 100 MB has its evidence and a flow one byte short of
\* it, to the same destination, has none
C15_Witness ==
  \E k, l \in 1..Len(flows_store) :
    /\ flows_store[k].daddr = PlainDaddr /\ flows_store[l].daddr = PlainDaddr
    /\ flows_store[k].sbytes = flow_upload_threshold * BytesPerMb
    /\ flows_store[l].sbytes = flow_upload_threshold * BytesPerMb - 1
    /\ \E i \in ExfiltrationEvidence : evidence[i].uids = <<flows_store[k].uid>>
    /\ ~\E i \in ExfiltrationEvidence : evidence[i].uids = <<flows_store[l].uid>>

\* the device-changing-IPs evidence emitted for a source IP
DeviceEvidenceOf(saddr) ==
  {i \in 1..Len(evidence) :
     /\ evidence[i].type = "device_changing_ips"
     /\ SaddrOf(evidence[i].profileid) = saddr}

\* every device-changing-IPs evidence names an IPv4 address bound to the
\* MAC in the store and different from the source IP
DeviceEvidenceJustified ==
  \A saddr \in DeviceSaddrs : \A i \in DeviceEvidenceOf(saddr) :
    /\ evidence[i].old_ip \in Range(mac_bindings[evidence[i].smac])
    /\ ipv4(evidence[i].old_ip)
    /\ evidence[i].old_ip # saddr

\* C16: the MAC/IP comparison runs only on the first conn flow seen for a
\* source IP, at most one device-changing-IPs evidence is emitted per
\* source IP, and only when the MAC is bound in the store to an IPv4
\* address different from the source IP.
C16_DeviceOncePerSourceIp ==
  /\ \A saddr \in DeviceSaddrs :
       /\ \A k \in 1..Len(device_history[saddr].compared) :
            device_history[saddr].compared[k][1] = 1
       /\ Cardinality(DeviceEvidenceOf(saddr)) <= 1
  /\ DeviceEvidenceJustified

\* C16 as amended: the MAC/IP comparison runs at most once per source IP,
\* on the first conn flow that carries a source MAC, and only for a private
\* IPv4 source IP; at most one device-changing-IPs evidence is emitted per
\* source IP, and only when the MAC is bound in the store to an IPv4
\* address different from the source IP.
C16_DeviceOncePerSourceIpWithMac ==
  /\ \A saddr \in DeviceSaddrs :
       LET h == device_history[saddr]
       IN /\ Len(h.compared) <= 1
          /\ \A k \in 1..Len(h.compared) : h.compared[k][2] = 1
          /\ h.compared # <<>> <=>
               (h.conn_mac >= 1 /\ ipv4(saddr) /\ is_private_ip(saddr))
          /\ Cardinality(DeviceEvidenceOf(saddr)) <= Len(h.compared)
  /\ DeviceEvidenceJustified

\* the comparison ran on the second conn flow of a source IP, the first
\* one with a MAC, and emitted; a third conn flow with the MAC followed
C16_Witness ==
  \E saddr \in DeviceSaddrs :
    /\ device_history[saddr].compared = <<<<2, 1>>>>
    /\ device_history[saddr].conn_mac = 2
    /\ Cardinality(DeviceEvidenceOf(saddr)) = 1

\* the last call of the multi-port check got as far as the store and the
\* store has no entry for the peer of the flow: the destination when the
\* profile is the source, the source when the profile is the destination
PortsStoreMiss ==
  /\ ports_calls > 0
  /\ ~PortsSkips(ports_last.proto, ports_last.state, ports_last.appproto,
                 ports_last.dport)
  /\ \/ /\ SaddrOf(ports_last.profileid) = ports_last.saddr
        /\ ports_last.daddr \notin DOMAIN established_store["Dst"]
     \/ /\ SaddrOf(ports_last.profileid) = ports_last.daddr
        /\ ports_last.saddr \notin DOMAIN established_store["Src"]

\* C17: a call of detect_connection_to_multiple_ports that finds no entry
\* for the peer address in the store returns without evidence and without
\* raising, in the client and in the server direction.
C17_PortsStoreMissNotFatal ==
  PortsStoreMiss => ports_last.outcome = "returned"

\* C18: every call of Conn.analyze for a new_flow message calls each of its
\* per-flow checks, whatever check failed on the flow before.
C18_MalformedInputIsolatesOneCheck ==
  analyze_events > 0 => Range(analyze_last.called) = Range(AnalyzeChecks)

\* C19: a path that gets to the removal of line 517 with its uid already
\* absent from the list leaves the list as it is and returns as after any
\* evidence, with no exception; with the uid present, the removal drops
\* one occurrence of it.
C19_RedundantRemovalIsNoOp ==
  [][\A p \in Paths :
       (Path(p).pc = "remove" /\ Path(p)'.pc # "remove") =>
         LET list == connections_checked_in_conn_dns_timer_thread
             uid == Path(p).args.uid
         IN /\ uid \notin Range(list) =>
                 connections_checked_in_conn_dns_timer_thread' = list
            /\ uid \in Range(list) =>
                 Len(connections_checked_in_conn_dns_timer_thread') = Len(list) - 1
            /\ IF p = 0 THEN main'.pc = "idle"
               ELSE timers'[p].pc = "done" /\ timers'[p].outcome = "evidence"]_vars

\* of two flows with one uid the first registered it; the main path and
\* the timer both emitted and both removed, so one of the two removals
\* found the uid gone; the list is empty and both paths returned
C19_Witness ==
  /\ flows_consumed = 2
  /\ main.pc = "idle"
  /\ connections_checked_in_conn_dns_timer_thread = <<>>
  /\ \E t \in 1..Len(timers) :
       /\ timers[t].pc = "done" /\ timers[t].outcome = "evidence"
       /\ \E i, j \in ConnDnsEvidenceOf(timers[t].args.uid) :
            evidence[i].path = 0 /\ evidence[j].path = t

\* what C20 expects of an endpoint: the private IPv4 addresses of the model
\* that lie outside the configured local network
C20_PrivateIPv4Outside(ip) ==
  IF local_network = [groups |-> <<192, 168, 1, 0>>, prefixlen |-> 24]
  THEN ip \in {"10.0.0.9", "172.16.0.9"}
  ELSE IF local_network = [groups |-> <<10, 0, 0, 0>>, prefixlen |-> 8]
  THEN ip \in {"192.168.1.2", "172.16.0.9"}
  ELSE FALSE

\* the evidence of the localnet check for a flow and an endpoint
LocalnetEvidenceOf(uid, what_to_check) ==
  {i \in 1..Len(evidence) :
     /\ evidence[i].type = "different_localnet_usage"
     /\ evidence[i].uid = uid
     /\ evidence[i].ip_outside_localnet = what_to_check}

\* C20: for a flow handed to both calls of check_different_localnet_usage,
\* the srcip call emits exactly when saddr is a private IPv4 address
\* outside the local network and the dstip call exactly when daddr is, each
\* whatever the other endpoint is; with no local network neither emits.
C20_LocalnetDirectionalSymmetry ==
  localnet_flows > 0 =>
    /\ localnet_last.srcip <=> C20_PrivateIPv4Outside(localnet_last.saddr)
    /\ localnet_last.dstip <=> C20_PrivateIPv4Outside(localnet_last.daddr)
    /\ Cardinality(LocalnetEvidenceOf(localnet_last.uid, "srcip"))
         = (IF localnet_last.srcip THEN 1 ELSE 0)
    /\ Cardinality(LocalnetEvidenceOf(localnet_last.uid, "dstip"))
         = (IF localnet_last.dstip THEN 1 ELSE 0)
    /\ local_network = NoLocalNetwork =>
         ~localnet_last.srcip /\ ~localnet_last.dstip

\* with a local network configured, one flow fired for the source only and
\* another flow for both endpoints
C20_Witness ==
  /\ local_network # NoLocalNetwork
  /\ localnet_flows = 2
  /\ localnet_last.srcip /\ ~localnet_last.dstip
  /\ LocalnetEvidenceOf(1, "srcip") # {}
  /\ LocalnetEvidenceOf(1, "dstip") # {}

\* the protocols check_conn_to_port_0 is not to report, however written
Port0ExemptProtos == {"igmp", "icmp", "ICMP", "ipv6-icmp", "arp"}

\* C21: a call of check_conn_to_port_0 emits evidence if and only if the
\* protocol is none of igmp, icmp, ipv6-icmp, arp and sport or dport is 0;
\* the evidence names as attacker the source when sport is 0 and the
\* destination otherwise, and as victim the other endpoint.
C21_Port0EvidenceAndRoles ==
  [][check_calls' # check_calls =>
       LET c == check_last'
           emits == c.proto \notin Port0ExemptProtos
                    /\ (c.sport = 0 \/ c.dport = 0)
       IN /\ emits <=> Len(evidence') = Len(evidence) + 1
          /\ ~emits => evidence' = evidence
          /\ emits =>
               LET e == evidence'[Len(evidence')] IN
               /\ SubSeq(evidence', 1, Len(evidence)) = evidence
               /\ e.type = "port_0_connection" /\ e.uid = c.uid
               /\ IF c.sport = 0
                  THEN e.attacker = c.saddr /\ e.victim = c.daddr
                  ELSE e.attacker = c.daddr /\ e.victim = c.saddr]_vars

\* a flow from a non-zero port to port 0 between two different hosts was
\* reported after a flow from port 0 was
C21_Witness ==
  /\ check_last.check = "port_0"
  /\ check_last.sport # 0 /\ check_last.dport = 0
  /\ check_last.saddr # check_last.daddr
  /\ Len(evidence) = 2
  /\ evidence[1].sport = 0 /\ evidence[1].attacker = evidence[1].saddr
  /\ evidence[2].uid = check_last.uid
  /\ evidence[2].attacker = check_last.daddr

\* the six conditions under which an unknown port is to be reported, for the
\* flow c and the analyzer state before the call
UnknownPortConditions(c) ==
  /\ c.state = "Established"
  /\ get_port_info(c.dport, Lower(c.proto)) = ""
  /\ ~port_belongs_to_an_org(c.daddr, c.dport, Lower(c.proto), c.saddr)
  /\ c.proto \notin {"icmp", "ICMP"}
  /\ ~is_p2p(c.dport, Lower(c.proto), c.daddr)
  /\ c.dport # 2021

\* the call of this step added exactly one unknown-port evidence, of flow c
UnknownPortEmitted(c) ==
  /\ Len(evidence') = Len(evidence) + 1
  /\ SubSeq(evidence', 1, Len(evidence)) = evidence
  /\ evidence'[Len(evidence')].type = "unknown_port"
  /\ evidence'[Len(evidence')].uid = c.uid
  /\ evidence'[Len(evidence')].daddr = c.daddr
  /\ evidence'[Len(evidence')].dport = c.dport

\* C22 as stated: a call of check_unknown_port emits unknown-port evidence
\* exactly when the state is Established, the port/proto has no
\* known-service entry, the port does not belong to an organization matching
\* the destination, the protocol is not ICMP, the connection is not
\* classified P2P and the port is not a known FTP port, and emits nothing in
\* every other case.
C22_UnknownPortExactly ==
  [][check_calls' # check_calls =>
       LET c == check_last' IN
       IF UnknownPortConditions(c)
       THEN UnknownPortEmitted(c)
       ELSE evidence' = evidence]_vars

\* C22, amended: the same for a flow that has a destination port (dport is
\* not 0); a flow without one emits nothing.
C22_UnknownPortExactlyWithDport ==
  [][check_calls' # check_calls =>
       LET c == check_last' IN
       IF c.dport # 0 /\ UnknownPortConditions(c)
       THEN UnknownPortEmitted(c)
       ELSE evidence' = evidence]_vars

\* an established UDP flow to a high port of a first destination, not yet
\* classified P2P, was reported as a flow to an unknown port
C22_Witness ==
  /\ check_last.check = "unknown_port"
  /\ check_last.dport = 40000 /\ check_last.proto = "udp"
  /\ check_last.state = "Established"
  /\ Cardinality(DOMAIN p2p_daddrs) = 1
  /\ Len(evidence) = 1
  /\ evidence[1].uid = check_last.uid /\ evidence[1].dport = 40000

\* the attributes of the Conn object
ConnAttributes ==
  <<connections_checked_in_conn_dns_timer_thread, p2p_daddrs>>

\* C30: a call of check_long_connection emits evidence if and only if neither
\* saddr nor daddr is multicast and the duration is strictly greater than
\* long_connection_threshold; a duration equal to the threshold emits
\* nothing, and the call leaves the attributes of the analyzer and the store
\* as they were.
C30_LongConnectionStrictThreshold ==
  [][check_calls' # check_calls =>
       LET c == check_last'
           long == /\ c.saddr # MulticastDaddr /\ c.daddr # MulticastDaddr
                   /\ c.dur.shape \in {"number", "numeric string"}
                   /\ c.dur.value > long_connection_threshold
       IN /\ IF long
             THEN /\ Len(evidence') = Len(evidence) + 1
                  /\ SubSeq(evidence', 1, Len(evidence)) = evidence
                  /\ evidence'[Len(evidence')].type = "long_connection"
                  /\ evidence'[Len(evidence')].uid = c.uid
             ELSE evidence' = evidence
          /\ c.dur.value = long_connection_threshold => evidence' = evidence
          /\ UNCHANGED <<ConnAttributes, reconnections_store, flows_store,
                         established_store>>]_vars

\* a unicast flow whose duration is the threshold was not reported after a
\* flow one second longer was
C30_Witness ==
  /\ check_last.check = "long_connection"
  /\ check_last.dur.value = long_connection_threshold
  /\ check_last.dur.shape = "number"
  /\ check_last.outcome = "False"
  /\ check_calls = 2
  /\ Len(evidence) = 1
  /\ evidence[1].dur = long_connection_threshold + 1

\* the queries of the model that are neither ARPA, .local nor whitelisted
DgaCountedQueries == {"example.com", "example10.com"}

\* C23: an NXDOMAIN query that leaves the number accumulated for its
\* (profile, timewindow) below the threshold of 10 appends its domain and
\* uid to the counter of that key and emits nothing; the query that reaches
\* the threshold emits exactly one DGA evidence with all the accumulated
\* uids and leaves the counter of the key as ([], []); the counters of the
\* other keys are not touched.
C23_DgaEdgeTriggered ==
  [][(/\ dns_calls' # dns_calls
      /\ dns_last'.check = "dga"
      /\ dns_last'.rcode_name = "NXDOMAIN"
      /\ dns_last'.query \in DgaCountedQueries) =>
       LET c == dns_last'
           before == IF c.key \in DOMAIN nxdomains
                     THEN nxdomains[c.key] ELSE <<<<>>, <<>>>>
       IN /\ DOMAIN nxdomains' = DOMAIN nxdomains \cup {c.key}
          /\ \A k \in DOMAIN nxdomains \ {c.key} : nxdomains'[k] = nxdomains[k]
          /\ IF Len(before[1]) + 1 < 10
             THEN /\ nxdomains'[c.key] =
                       <<Append(before[1], c.query), Append(before[2], c.uid)>>
                  /\ evidence' = evidence
             ELSE /\ evidence' =
                       Append(evidence,
                              [type |-> "dga", nxdomains |-> 10, key |-> c.key,
                               uids |-> Append(before[2], c.uid)])
                  /\ nxdomains'[c.key] = <<<<>>, <<>>>>]_vars

\* the tenth NXDOMAIN query of the first time window has fired, once
C23_Witness ==
  /\ dns_last.check = "dga" /\ dns_last.result
  /\ Len(evidence) = 1
  /\ Len(evidence[1].uids) = 10
  /\ nxdomains[<<OwnProfile, "timewindow1">>] = <<<<>>, <<>>>>

\* C24: a call of detect_dga whose rcode is not NXDOMAIN, whose query is an
\* ARPA or .local domain, or whose domain is whitelisted leaves the NXDOMAIN
\* counter unchanged and emits no evidence.
C24_DgaSkipsLeaveCounter ==
  [][(/\ dns_calls' # dns_calls
      /\ dns_last'.check = "dga"
      /\ \/ dns_last'.rcode_name = "NOERROR"
         \/ dns_last'.query \in {"1.1.168.192.in-addr.arpa", "printer.local",
                                 "whitelisted.com"}) =>
       /\ nxdomains' = nxdomains
       /\ evidence' = evidence
       /\ ~dns_last'.result]_vars

\* a whitelisted NXDOMAIN query came when nine answers were accumulated, and
\* nothing fired
C24_Witness ==
  /\ dns_last.check = "dga"
  /\ dns_last.rcode_name = "NXDOMAIN" /\ dns_last.query = "whitelisted.com"
  /\ <<OwnProfile, "timewindow1">> \in DOMAIN nxdomains
  /\ Len(nxdomains[<<OwnProfile, "timewindow1">>][1]) = 9
  /\ evidence = <<>>

\* C25: a call of check_dns_arpa_scan reports a scan exactly when its query
\* is an ARPA query that brings the number tracked for the profile and time
\* window to the threshold of 10 and the tracked queries, the new one
\* included, fall within 2 seconds; with fewer queries, or with the
\* threshold number spread over more than 2 seconds, it reports nothing.
C25_ArpaScanWithinTwoSeconds ==
  [][(dns_calls' # dns_calls /\ dns_last'.check = "arpa_scan") =>
       LET c == dns_last'
           before == IF c.key \in DOMAIN dns_arpa_queries
                     THEN dns_arpa_queries[c.key][1] ELSE <<>>
           scan == /\ c.domain = "1.1.168.192.in-addr.arpa"
                   /\ Len(before) + 1 = 10
                   /\ c.ts - before[1] <= 2
       IN /\ c.result <=> scan
          /\ IF scan
             THEN /\ Len(evidence') = Len(evidence) + 1
                  /\ SubSeq(evidence', 1, Len(evidence)) = evidence
                  /\ evidence'[Len(evidence')].type = "dns_arpa_scan"
                  /\ evidence'[Len(evidence')].key = c.key
                  /\ Len(evidence'[Len(evidence')].uids) = 10
             ELSE evidence' = evidence]_vars

\* the tenth ARPA query of the first time window came two seconds after the
\* first and was reported
C25_Witness ==
  /\ dns_last.check = "arpa_scan" /\ dns_last.result
  /\ dns_last.ts = 2
  /\ Len(evidence) = 1
  /\ evidence[1].key = <<OwnProfile, "timewindow1">>

\* the positions of the loopback and invalid addresses in a list of answers
InvalidPositions(answers) ==
  {i \in 1..Len(answers) : answers[i] \in {"127.0.0.1", "0.0.0.0"}}

\* C26: for a query other than localhost, check_invalid_dns_answers emits
\* one evidence for every answer that is a loopback or invalid address and
\* deletes the cached resolution of each such answer, and of no other; for
\* valid answers, or for any answer to the query localhost, it emits nothing
\* and deletes nothing.
C26_InvalidAnswersReportedAndDeleted ==
  [][(dns_calls' # dns_calls /\ dns_last'.check = "invalid_dns_answers") =>
       LET c == dns_last'
           invalid == InvalidPositions(c.answers)
           new == SubSeq(evidence', Len(evidence) + 1, Len(evidence'))
       IN /\ SubSeq(evidence', 1, Len(evidence)) = evidence
          /\ IF c.domain = "localhost" \/ invalid = {}
             THEN evidence' = evidence /\ dns_resolutions' = dns_resolutions
             ELSE /\ Len(new) = Cardinality(invalid)
                  /\ \A i \in invalid :
                       Cardinality({j \in 1..Len(new) :
                                      /\ new[j].answer = c.answers[i]
                                      /\ new[j].domain = c.domain
                                      /\ new[j].uid = c.uid})
                         = Cardinality({k \in invalid :
                                          c.answers[k] = c.answers[i]})
                  /\ dns_resolutions' =
                       dns_resolutions \ {c.answers[i] : i \in invalid}]_vars

\* a loopback answer to example.com was reported and its cached resolution
\* deleted, the valid answer of the same query kept, and the same answer to
\* localhost was then left alone
C26_Witness ==
  /\ dns_last.check = "invalid_dns_answers"
  /\ dns_last.domain = "localhost" /\ dns_last.answers = <<"0.0.0.0">>
  /\ Len(evidence) = 1
  /\ evidence[1].answer = "127.0.0.1" /\ evidence[1].domain = "example.com"
  /\ dns_resolutions = {"0.0.0.0", "8.8.8.8"}

\* the TXT answers of the model, and those whose entropy is 4.0 or more
TxtAnswers ==
  {"TXT aaaa", "TXT v=spf1 include:_spf.example.com",
   "TXT abcdefghijklmnopqrstuvwxyz1234567890"}
HighEntropyAnswers ==
  {"TXT v=spf1 include:_spf.example.com",
   "TXT abcdefghijklmnopqrstuvwxyz1234567890"}

\* the number of positions of the sequence s that hold x
Occurrences(s, x) == Cardinality({i \in 1..Len(s) : s[i] = x})

\* C27: a call of check_high_entropy_dns_answers invokes the entropy
\* estimator exactly once per TXT answer and never for another answer, and
\* emits evidence for exactly the TXT answers whose entropy is the threshold
\* or more; a query without TXT answers invokes the estimator zero times and
\* emits nothing.
C27_EntropyPerTxtAnswer ==
  [][(dns_calls' # dns_calls
      /\ dns_last'.check = "high_entropy_dns_answers") =>
       LET c == dns_last'
           new == SubSeq(evidence', Len(evidence) + 1, Len(evidence'))
           reported == [j \in 1..Len(new) |-> new[j].answer]
       IN /\ SubSeq(evidence', 1, Len(evidence)) = evidence
          /\ \A a \in TxtAnswers :
               Occurrences(c.estimated, a) = Occurrences(c.answers, a)
          /\ Occurrences(c.estimated, "A 1.2.3.4") = 0
          /\ \A a \in HighEntropyAnswers :
               Occurrences(reported, a) = Occurrences(c.answers, a)
          /\ \A a \in EntropyAnswers \ HighEntropyAnswers :
               Occurrences(reported, a) = 0
          /\ \A j \in 1..Len(new) : new[j].uid = c.uid
          /\ Range(c.answers) \cap TxtAnswers = {} =>
               c.estimated = <<>> /\ evidence' = evidence]_vars

\* a query with an A answer and a TXT answer whose entropy is the threshold:
\* one invocation of the estimator, one evidence; the query before it had a
\* low-entropy TXT answer and emitted nothing
C27_Witness ==
  /\ dns_last.check = "high_entropy_dns_answers"
  /\ dns_last.answers = <<"A 1.2.3.4", "TXT v=spf1 include:_spf.example.com">>
  /\ Len(dns_last.estimated) = 1
  /\ dns_calls = 2
  /\ Len(evidence) = 1
  /\ evidence[1].uid = dns_last.uid
  /\ evidence[1].entropy = 40

\* C28: is_connection_made_by_different_version has three outcomes: True
\* exactly when the other-version address has data and has contacted the
\* candidate IP, None exactly when both sides have data and share no IP,
\* and False exactly when the other address or its contacted IPs are empty;
\* no-match and empty data never give the same value.
C28_DifferentVersionTriState ==
  dns_last.check = "different_version" =>
    LET c == dns_last
        empty == c.other_ip = <<>> \/ c.contacted_ips = <<>>
        match == \E i \in 1..Len(c.contacted_ips) : c.contacted_ips[i] = c.daddr
    IN /\ (~empty /\ match) <=> c.result = "True"
       /\ (~empty /\ ~match) <=> c.result = "None"
       /\ empty <=> c.result = "False"

\* both sides had data and shared no IP
C28_Witness ==
  /\ dns_last.check = "different_version"
  /\ dns_last.other_ip = <<"192.168.1.2">>
  /\ dns_last.contacted_ips = <<"1.1.1.1", "9.9.9.9">>
  /\ dns_last.daddr = "8.8.8.8"
  /\ dns_last.result = "None"

\* C29: is_dns_server returns false, and lets no exception through, when
\* the query sent to the address raises an error or times out, and returns
\* true when the query succeeds.
C29_ProbeFailureIsNegative ==
  dns_last.check = "is_dns_server" =>
    /\ dns_last.raised = ""
    /\ dns_last.returned <=> dns_last.probe = ""
    /\ dns_last.ip = "8.8.8.8" => dns_last.returned
    /\ dns_last.ip = "192.168.1.100" => ~dns_last.returned

\* the probe of an address raised an exception other than a timeout and the
\* call returned false
C29_Witness ==
  /\ dns_last.check = "is_dns_server"
  /\ dns_last.ip = "192.168.1.100"
  /\ dns_last.probe = "Exception"
  /\ ~dns_last.returned /\ dns_last.raised = ""

\* the evidence added by the step
AddedEvidence == SubSeq(evidence', Len(evidence) + 1, Len(evidence'))

\* C31: a new_flow message runs every per-flow check once for its flow (the
\* differing-localnet check twice, for srcip and for dstip) and never the
\* aggregate of the time window; a tw_closed message runs only
\* detect_data_upload_in_twid, runs no per-flow check, and changes neither
\* p2p_daddrs nor connections_checked_in_conn_dns_timer_thread.
C31_EventDispatch ==
  [][/\ analyze_events' # analyze_events =>
          /\ analyze_last'.called = AnalyzeChecks
          /\ tw_closed_count' = tw_closed_count
          /\ \A i \in 1..Len(AddedEvidence) :
               AddedEvidence[i].type # "data_exfiltration"
     /\ tw_closed_count' # tw_closed_count =>
          /\ analyze_events' = analyze_events
          /\ analyze_last' = analyze_last
          /\ p2p_daddrs' = p2p_daddrs
          /\ connections_checked_in_conn_dns_timer_thread'
               = connections_checked_in_conn_dns_timer_thread
          /\ \A i \in 1..Len(AddedEvidence) :
               /\ AddedEvidence[i].type = "data_exfiltration"
               /\ AddedEvidence[i].by = "detect_data_upload_in_twid"]_vars

\* C32: after a REJ flow that leaves the count of its key below 5, the table
\* the store holds for the flow's (profile, timewindow) has, for the key,
\* the count raised by one and the uid of the flow appended, so that the
\* next call reads them.
C32_ReconnWriteBack ==
  [][\A twid \in ReconnTwids, key \in ReconnKeys :
       (/\ rej_seen'[<<twid, key>>] # rej_seen[<<twid, key>>]
        /\ evidence' = evidence) =>
         LET pt == <<OwnProfile, twid>>
             before == IF key \in DOMAIN reconnections_store[pt]
                       THEN reconnections_store[pt][key] ELSE <<0, <<>>>>
             seen == rej_seen'[<<twid, key>>]
         IN /\ key \in DOMAIN reconnections_store'[pt]
            /\ reconnections_store'[pt][key] =
                 <<before[1] + 1, Append(before[2], seen[Len(seen)])>>]_vars

\* C33: under every interleaving of the flow events of the main path and the
\* re-checks of the timer threads, no uid is in
\* connections_checked_in_conn_dns_timer_thread more than once.
C33_PendingUidsIsASet ==
  \A u \in UIDs :
    Cardinality({i \in 1..Len(connections_checked_in_conn_dns_timer_thread) :
                   connections_checked_in_conn_dns_timer_thread[i] = u}) <= 1

\* the count self.p2p_daddrs holds for a destination, 0 when it has none
P2PCountOf(table, daddr) == IF daddr \in DOMAIN table THEN table[daddr] ELSE 0

\* C34: the P2P counter is updated for every UDP flow with dport > 30000 the
\* analyzer receives, whatever the state of the flow and whether or not its
\* port is a known service or belongs to an organization; for a flow that is
\* not UDP or whose dport is at most 30000 the counter is unchanged and the
\* flow is not classified P2P.
C34_P2PCounterEveryHighPortUdp ==
  [][(check_calls' # check_calls /\ check_last'.check = "unknown_port") =>
       LET c == check_last'
           before == P2PCountOf(p2p_daddrs, c.daddr)
       IN IF Lower(c.proto) = "udp" /\ c.dport > P2PPortFloor
          THEN P2PCountOf(p2p_daddrs', c.daddr) =
                 IF before >= P2PDaddrHits THEN before ELSE before + 1
          ELSE /\ p2p_daddrs' = p2p_daddrs
               /\ ~is_p2p(c.dport, Lower(c.proto), c.daddr)]_vars

\* what is_p2p returns for a UDP connection to a high port of daddr
P2PWouldReturnTrue(daddr) == is_p2p(P2PPortFloor + 1, "udp", daddr)

\* C35: P2P classification is sticky. Once is_p2p has returned true for a
\* high-port UDP connection to a destination it returns true for every later
\* one to that destination (the state such a call leaves answers true for
\* the destination, and a state that answers true for a destination is
\* followed only by states that do); once 5 distinct destinations are
\* recorded it returns true for every destination; and the count of a
\* destination never decreases.
C35_P2PSticky ==
  [][/\ \A d \in P2PDaddrs :
          /\ P2PCountOf(p2p_daddrs', d) >= P2PCountOf(p2p_daddrs, d)
          /\ P2PWouldReturnTrue(d) => P2PWouldReturnTrue(d)'
          /\ (/\ P2PWouldReturnTrue(d)
              /\ p2p_calls' # p2p_calls
              /\ p2p_last'.daddr = d
              /\ IsHighPortUdp(p2p_last'.dport, p2p_last'.proto))
               => p2p_last'.result
          /\ Cardinality(DOMAIN p2p_daddrs') >= P2PDistinctDaddrs
               => P2PWouldReturnTrue(d)'
     /\ \A d \in P2PDaddrs :
          (/\ p2p_calls' # p2p_calls
           /\ p2p_last'.result
           /\ p2p_last'.daddr = d)
            => P2PWouldReturnTrue(d)']_vars

\* five destinations are recorded and a later high-port UDP connection to one
\* of them, the second to it, was classified P2P again
C35_Witness ==
  /\ Cardinality(DOMAIN p2p_daddrs) = P2PDistinctDaddrs
  /\ p2p_calls > P2PDistinctDaddrs
  /\ p2p_last.result
  /\ IsHighPortUdp(p2p_last.dport, p2p_last.proto)
  /\ p2p_hits[p2p_last.daddr] = 2
  /\ p2p_daddrs[p2p_last.daddr] = 2

\* the positions of the flows of all_flows to daddr that have non-zero sbytes,
\* none when daddr is ignored
CountedFlows(all_flows, daddr) ==
  {i \in 1..Len(all_flows) :
     /\ all_flows[i].daddr = daddr
     /\ all_flows[i].sbytes # 0
     /\ ~is_ignored_ip_data_upload(daddr)}

\* the sum of sbytes over the flows at the positions S
RECURSIVE SbytesOver(_, _)
SbytesOver(all_flows, S) ==
  IF S = {} THEN 0
  ELSE LET i == CHOOSE i \in S : TRUE
       IN all_flows[i].sbytes + SbytesOver(all_flows, S \ {i})

\* C36: get_sent_bytes aggregation. For every destination in the result the
\* byte total is the sum of sbytes over exactly the input flows to that
\* destination that have non-zero sbytes and a non-ignored destination, and
\* the uid list holds the uid of each of those flows exactly once; ignored
\* destinations and destinations with only zero-byte flows are not in the
\* result. Stated of the flows the store holds for the profile.
C36_SentBytesAggregation ==
  LET all_flows == get_all_flows_in_profileid(OwnProfile)
      bytes_sent == get_sent_bytes(all_flows)
  IN /\ \A i \in 1..Len(bytes_sent) :
          LET counted == CountedFlows(all_flows, bytes_sent[i].daddr)
          IN /\ counted # {}
             /\ bytes_sent[i].bytes = SbytesOver(all_flows, counted)
             /\ Range(bytes_sent[i].uids) = {all_flows[j].uid : j \in counted}
             /\ Len(bytes_sent[i].uids) = Cardinality(counted)
             /\ \A j \in 1..Len(bytes_sent) :
                  bytes_sent[j].daddr = bytes_sent[i].daddr => j = i
     /\ \A k \in 1..Len(all_flows) :
          CountedFlows(all_flows, all_flows[k].daddr) = {} =>
            \A i \in 1..Len(bytes_sent) :
              bytes_sent[i].daddr # all_flows[k].daddr

\* two flows of half the threshold each to one destination were summed by
\* the tw_closed handler into one evidence with both uids
C36_Witness ==
  /\ tw_closed_count > 0
  /\ Len(flows_store) = 2
  /\ flows_store[1].daddr = PlainDaddr /\ flows_store[2].daddr = PlainDaddr
  /\ flows_store[1].sbytes = (data_exfiltration_threshold \div 2) * BytesPerMb
  /\ flows_store[2].sbytes = (data_exfiltration_threshold \div 2) * BytesPerMb
  /\ \E e \in 1..Len(evidence) :
       /\ evidence[e].by = "detect_data_upload_in_twid"
       /\ evidence[e].uids = <<1, 2>>
       /\ evidence[e].mbs = <<data_exfiltration_threshold, 0>>

\* C37: Timeline.process_flow contains its failures. If a step of processing
\* a flow raises (a missing field, a bad duration, a store error), no
\* timeline line is added for that flow, the error does not reach the main
\* loop, and the module goes on to consume the next new_flow message; when no
\* step raises, exactly one timeline line is added for the flow, after the
\* lines already there.
C37_ProcessFlowContainsFailures ==
  [][timeline_msgs' # timeline_msgs =>
       /\ ~timeline_last'.propagated
       /\ IF timeline_last'.raised # ""
          THEN timeline_lines' = timeline_lines
          ELSE /\ Len(timeline_lines') = Len(timeline_lines) + 1
               /\ SubSeq(timeline_lines', 1, Len(timeline_lines)) = timeline_lines
               /\ timeline_lines'[Len(timeline_lines')].uid = timeline_msgs']_vars

\* the first message raised in process_flow and left no line; the second
\* was processed and its line is the only one
C37_Witness ==
  /\ timeline_msgs = 2
  /\ timeline_last.raised = ""
  /\ ~timeline_last.propagated
  /\ Len(timeline_lines) = 1
  /\ timeline_lines[1].uid = 2

\* the activity records process_tcp_udp_flow produced
TcpUdpActivities ==
  {timeline_lines[i].activity : i \in
     {j \in 1..Len(timeline_lines) : timeline_lines[j].activity.kind = "tcp_udp"}}

\* C38: in every activity record process_tcp_udp_flow produced, sent + recv
\* equals tot, and sent, recv and tot are non-negative integers, whatever
\* sbytes and allbytes the flow carried, values that are not integers (which
\* validate_bytes replaces by 0) included.
C38_TimelineByteAccounting ==
  \A activity \in TcpUdpActivities :
    /\ activity.sent + activity.recv = activity.tot
    /\ activity.sent \in Nat
    /\ activity.recv \in Nat
    /\ activity.tot \in Nat

====
